---- MODULE Spec2Model ----
(***************************************************************************)
(* story-voyage: the illustration pipeline.                                *)
(*                                                                         *)
(*   prompt composition  -> generation call -> response extraction ->      *)
(*   persistence (blob storage, local fallback) -> batch orchestration     *)
(*                                                                         *)
(* Strings are sequences of tokens.  A text the program itself writes (a   *)
(* clause of the prompt, a filename prefix) is one token; a text the       *)
(* caller supplies is a sequence of one-character tokens, so that length   *)
(* checks, concatenation, containment and suffixes are computed.           *)
(* An optional value (a field that may be undefined, a result that may be  *)
(* null) is a set with at most one element: {} is undefined/null.          *)
(***************************************************************************)
EXTENDS Integers, Sequences, FiniteSets, TLC

VARIABLES
    call,       \* one invocation of a route handler or helper: its inputs
    reply,      \* what that invocation returned and which calls it made
    req,        \* batch-illustrate: credential and request body
    env,        \* batch-illustrate: per page, what the outside world answers
    pc,         \* batch-illustrate: position of POST
    batchIndex, \* batch-illustrate: loop counter of POST
    stage,      \* batch-illustrate: per input position, the invocation's state
    outcome,    \* batch-illustrate: per input position, the settled BatchResult
    results,    \* batch-illustrate: the results array of POST
    response,   \* batch-illustrate: the HTTP response
    genLog,     \* batch-illustrate: generation calls issued, in order
    pauses,     \* batch-illustrate: inter-chunk pauses taken
    run,        \* 1: the request as given; 2: the same request with one page failing
    firstRun,   \* what run 1 answered, kept for run 2
    inject,     \* run 2: which page was made to fail, and how
    overtaken,  \* batch-illustrate: an invocation settled before one ahead of it in its chunk
    home        \* the home page: its React state, the books table, requests in flight

callVars == <<call, reply>>
batchVars == <<req, env, pc, batchIndex, stage, outcome, results, response,
               genLog, pauses, run, firstRun, inject, overtaken, home>>
vars == <<call, reply, req, env, pc, batchIndex, stage, outcome, results,
          response, genLog, pauses, run, firstRun, inject, overtaken, home>>
\* what a step of the home page leaves alone
serverVars == <<call, reply, req, env, pc, batchIndex, stage, outcome, results,
                response, genLog, pauses, run, firstRun, inject, overtaken>>

----------------------------------------------------------------------------
(* Optional values and strings *)

Null == {}
Some(v) == {v}
Present(o) == o # {}
Val(o) == CHOOSE v \in o : TRUE

\* JS truthiness of an optional string: undefined and "" are falsy
TruthyStr(o) == Present(o) /\ Val(o) # <<>>

\* s.includes(t) for a non-empty token sequence t
Contains(s, t) ==
    \E i \in 1..(Len(s) - Len(t) + 1) : SubSeq(s, i, i + Len(t) - 1) = t

HasToken(s, tok) == \E i \in 1..Len(s) : s[i] = tok

EndsWith(s, t) ==
    Len(t) <= Len(s) /\ SubSeq(s, Len(s) - Len(t) + 1, Len(s)) = t

\* a number that is a multiple of 1/2 is held as twice its value; its decimal text
NumStr(n2) ==
    IF n2 % 2 = 0 THEN ToString(n2 \div 2) ELSE ToString(n2 \div 2) \o ".5"

----------------------------------------------------------------------------
(* Persistence sink: uploadImageToStorage (src/lib/supabase.ts)            *)
(*                                                                         *)
(* o is what the storage service and the filesystem answer:                *)
(*   admin    supabaseAdmin is configured (a service key is set)           *)
(*   list     listBuckets: "ok" (with o.buckets), "error" ({error}),       *)
(*            "throw" (the promise rejects)                                *)
(*   create   createBucket: "ok", "error", "throw"                         *)
(*   upload   upload: "ok", "error", "throw"                               *)
(*   mkdir, write   "ok", "throw"                                          *)

BucketName == "story-images"

ListOutcomes == {"ok", "error", "throw"}
CallOutcomes == {"ok", "error", "throw"}
FsOutcomes == {"ok", "throw"}
BucketLists == {{}, {BucketName}}

StoreOracles ==
    [admin : BOOLEAN, list : ListOutcomes, buckets : BucketLists,
     create : CallOutcomes, upload : CallOutcomes,
     mkdir : FsOutcomes, write : FsOutcomes]

\* join(process.cwd(), "public", "images", filename)
ImagePath(filename) == <<"public/images/">> \o filename
\* `/images/${filename}`
LocalUrl(filename) == <<"/images/">> \o filename
\* getPublicUrl(data.path).publicUrl
PublicUrl(filename) == <<"https://storage/object/public/", BucketName, "/">> \o filename

UploadReturn(url, calls, blob, file) ==
    [ret |-> url, threw |-> FALSE, calls |-> calls, blob |-> blob, file |-> file]

\* a catch that lets the exception out
UploadCatchRethrows(calls) ==
    [ret |-> Null, threw |-> TRUE, calls |-> calls, blob |-> {}, file |-> {}]

\* catch (error) { console.error(...); return null }
UploadCatch(calls) ==
    [ret |-> Null, threw |-> FALSE, calls |-> calls, blob |-> {}, file |-> {}]

UploadImageToStorage(imageBuffer, filename, o) ==
    LET c1 == IF o.admin THEN <<"listBuckets">> ELSE <<>>
        bucketExists == \E b \in o.buckets : b = BucketName
        doCreate == o.admin /\ o.list = "ok" /\ ~bucketExists
        c2 == IF doCreate THEN c1 \o <<"createBucket">> ELSE c1
        c3 == c2 \o <<"upload">>
    IN  IF o.admin /\ o.list = "throw" THEN UploadCatch(c1)
        ELSE IF doCreate /\ o.create = "throw" THEN UploadCatch(c2)
        ELSE IF o.upload = "throw" THEN UploadCatch(c3)
        ELSE IF o.upload = "error" THEN
            \* fallback to local storage
            IF o.mkdir = "throw" THEN UploadCatch(c3 \o <<"mkdir">>)
            ELSE IF o.write = "throw" THEN UploadCatch(c3 \o <<"mkdir", "writeFile">>)
            ELSE UploadReturn(Some(LocalUrl(filename)),
                              c3 \o <<"mkdir", "writeFile">>, {},
                              {[path |-> ImagePath(filename), bytes |-> imageBuffer]})
        ELSE UploadReturn(Some(PublicUrl(filename)), c3,
                          {[name |-> filename, bytes |-> imageBuffer]}, {})

----------------------------------------------------------------------------
(* Prompt composer *)

Styles == {"realistic", "cartoon", "watercolor", "sketch"}

Preamble == "Create a high-quality children's book illustration. "
PreambleAdvanced ==
    "Create a high-quality children's book illustration with advanced features. "
PreamblePageA == "Create a high-quality children's book illustration for page "
PreambleGenerate ==
    "Create a realistic, high-quality children's book illustration. Style: photorealistic, warm and inviting, suitable for ages 3-12. "
DotSpace == ". "
CharacterPrefix ==
    "Character consistency: Maintain the same character appearance as described: "
GenericConsistency ==
    "Character consistency: Maintain consistent character appearance throughout the story. "
EditClause ==
    "This is an edit/continuation of a previous scene. Maintain visual continuity and character consistency. "
FusionClause == "Use image fusion techniques to blend multiple elements seamlessly. "
FusionClauseBatch ==
    "Use advanced image fusion techniques to blend multiple story elements seamlessly. "
ContinuationClause ==
    "This is a continuation of the story. Maintain visual continuity with previous scenes. "
Lighting ==
    "Lighting: soft, natural lighting. Colors: vibrant but not overwhelming. Composition: clean, uncluttered, focus on the main subject. "

\* a style switch whose sketch case appends the cartoon sentence
StyleClauseSketchAsCartoon(style) ==
    CASE style = "realistic" ->
           <<"Style: photorealistic, warm and inviting, suitable for ages 3-12. ">>
      [] style = "cartoon" ->
           <<"Style: colorful cartoon illustration, friendly and engaging, suitable for ages 3-12. ">>
      [] style = "watercolor" ->
           <<"Style: soft watercolor painting, artistic and dreamy, suitable for ages 3-12. ">>
      [] style = "sketch" ->
           <<"Style: colorful cartoon illustration, friendly and engaging, suitable for ages 3-12. ">>
      [] OTHER -> <<>>

\* switch (style) { case ...: enhancedPrompt += ... } (no default branch)
StyleClause(style) ==
    CASE style = "realistic" ->
           <<"Style: photorealistic, warm and inviting, suitable for ages 3-12. ">>
      [] style = "cartoon" ->
           <<"Style: colorful cartoon illustration, friendly and engaging, suitable for ages 3-12. ">>
      [] style = "watercolor" ->
           <<"Style: soft watercolor painting, artistic and dreamy, suitable for ages 3-12. ">>
      [] style = "sketch" ->
           <<"Style: detailed pencil sketch with light coloring, educational and clear, suitable for ages 3-12. ">>
      [] OTHER -> <<>>

\* if (characterDescription) {...} else if (consistencyMode) {...}
ConsistencyClause(characterDescription, consistencyMode) ==
    IF TruthyStr(characterDescription)
    THEN <<CharacterPrefix>> \o Val(characterDescription) \o <<DotSpace>>
    ELSE IF consistencyMode THEN <<GenericConsistency>> ELSE <<>>

\* if (consistencyMode && characterDescription) {...}
ConsistencyClauseGated(characterDescription, consistencyMode) ==
    IF consistencyMode /\ TruthyStr(characterDescription)
    THEN <<CharacterPrefix>> \o Val(characterDescription) \o <<DotSpace>>
    ELSE <<>>

\* if (editMode && previousImageUrl) {...}
EditModeClause(d) ==
    IF d.editMode /\ TruthyStr(d.previousImageUrl) THEN <<EditClause>> ELSE <<>>

\* illustrate route, storage variant: d is parsed.data
ComposeIllustrate(d) ==
    <<Preamble>> \o StyleClause(d.style)
        \o ConsistencyClause(d.characterDescription, d.consistencyMode)
        \o EditModeClause(d)
        \o <<Lighting>> \o d.prompt

\* illustrate route, filesystem variant
ComposeIllustrateFs(d) ==
    <<Preamble>> \o StyleClause(d.style)
        \o ConsistencyClauseGated(d.characterDescription, d.consistencyMode)
        \o EditModeClause(d)
        \o <<Lighting>> \o d.prompt

\* the advanced prompt with the scene prompt put before the lighting clause
ComposeAdvancedSceneFirst(d) ==
    <<PreambleAdvanced>> \o StyleClause(d.style)
        \o ConsistencyClauseGated(d.characterDescription, d.consistencyMode)
        \o EditModeClause(d)
        \o (IF d.fusionMode THEN <<FusionClause>> ELSE <<>>)
        \o d.prompt \o <<Lighting>>

\* advanced-illustrate route: enhancedPrompt
ComposeAdvanced(d) ==
    <<PreambleAdvanced>> \o StyleClause(d.style)
        \o ConsistencyClauseGated(d.characterDescription, d.consistencyMode)
        \o EditModeClause(d)
        \o (IF d.fusionMode THEN <<FusionClause>> ELSE <<>>)
        \o <<Lighting>> \o d.prompt

\* advanced-illustrate route, batchGenerate: `${enhancedPrompt} This is page ${i + 1} of ${pageCount}. `
PagePromptSuffix(i, pageCount) ==
    <<" This is page ", ToString(i + 1), " of ", ToString(pageCount), ". ">>

ComposeAdvancedPage(d, i) == ComposeAdvanced(d) \o PagePromptSuffix(i, d.pageCount)

\* batch-illustrate: generatePageIllustration's enhancedPrompt; pageIndex2 is twice
\* the pageIndex argument
ComposeBatchPage(prompt, pageIndex2, characterDescription, style, consistencyMode, fusionMode) ==
    <<PreamblePageA, NumStr(pageIndex2 + 2), DotSpace>>
        \o StyleClause(style)
        \o ConsistencyClause(characterDescription, consistencyMode)
        \o (IF pageIndex2 > 0 THEN <<ContinuationClause>> ELSE <<>>)
        \o (IF fusionMode THEN <<FusionClauseBatch>> ELSE <<>>)
        \o <<Lighting>> \o prompt

\* generate route: generateIllustration's enhancedPrompt
ComposeGenerate(prompt) == <<PreambleGenerate, Lighting>> \o prompt

----------------------------------------------------------------------------
(* Generation response and response extraction                             *)
(*                                                                         *)
(* A response is [candidates : optional sequence of candidates];           *)
(* a candidate [content : optional [parts : optional sequence of parts]];  *)
(* a part [inlineData : optional [data : optional string],                 *)
(*         text : optional string].                                        *)

\* response.candidates?.[0]?.content?.parts
PartsOf(resp) ==
    IF ~Present(resp.candidates) THEN Null
    ELSE IF Len(Val(resp.candidates)) = 0 THEN Null
    ELSE IF ~Present(Val(resp.candidates)[1].content) THEN Null
    ELSE Val(Val(resp.candidates)[1].content).parts

\* Buffer.from(s, "base64"): decodes what is base64, drops what is not
Base64 ==
    [b \in {"aW5saW5lMQ==", "aW5saW5lMg==", "aW5saW5lMw==", "aW5saW5lNA==",
            "dGV4dDE=", "dGV4dDI=", "dGV4dDM=", "dGV4dDQ="} |->
        CASE b = "aW5saW5lMQ==" -> "inline1"
          [] b = "aW5saW5lMg==" -> "inline2"
          [] b = "aW5saW5lMw==" -> "inline3"
          [] b = "aW5saW5lNA==" -> "inline4"
          [] b = "dGV4dDE=" -> "text1"
          [] b = "dGV4dDI=" -> "text2"
          [] b = "dGV4dDM=" -> "text3"
          [] b = "dGV4dDQ=" -> "text4"]

BufferFromBase64(str) ==
    IF Len(str) = 1 /\ str[1] \in DOMAIN Base64 THEN Base64[str[1]] ELSE "junk"

\* text.split(',')[1]: what lies between the first comma and the second (or the end)
SplitComma1(text) ==
    LET commas == {i \in 1..Len(text) : text[i] = ","}
    IN  IF commas = {} THEN Null
        ELSE LET first == CHOOSE i \in commas : \A j \in commas : i <= j
                 rest == commas \ {first}
                 last == IF rest = {} THEN Len(text)
                         ELSE (CHOOSE i \in rest : \A j \in rest : i <= j) - 1
             IN  Some(SubSeq(text, first + 1, last))

\* part.inlineData.data, when part.inlineData is there
ImageDataOf(part) == Val(part.inlineData).data

\* `illustration_${timestamp}_${randomId}.png`
IllustrationFilename(ts, rnd) ==
    <<"illustration", "_", ToString(ts), "_", rnd, ".png">>
\* a batch filename without the page in it
BatchFilenameNoPage(ts, rnd, pageIndex2) ==
    <<"batch", "_", "illustration", "_", ToString(ts), "_", rnd, ".png">>
\* `batch_illustration_${timestamp}_page${pageIndex + 1}_${randomId}.png`
BatchFilename(ts, rnd, pageIndex2) ==
    <<"batch", "_", "illustration", "_", ToString(ts), "_",
      "page" \o NumStr(pageIndex2 + 2), "_", rnd, ".png">>
\* `advanced_illustration_${timestamp}_${randomId}${pageSuffix}.png`
AdvancedFilename(ts, rnd, pageIndex) ==
    <<"advanced", "_", "illustration", "_", ToString(ts), "_", rnd>>
        \o (IF Present(pageIndex)
            THEN <<"_", "page" \o ToString(Val(pageIndex) + 1)>> ELSE <<>>)
        \o <<".png">>

\* What an extraction returned and did: ret the URL (or null), err the message of
\* the exception it raised, uploads the calls of uploadImageToStorage, mkdirs and
\* writes the direct filesystem calls, files and blobs what got stored.
NoEffects ==
    [ret |-> Null, err |-> Null, uploads |-> <<>>, mkdirs |-> 0, writes |-> <<>>,
     files |-> {}, blobs |-> {}]

\* await uploadImageToStorage(buffer, filename), as seen by its caller
ViaUpload(buffer, filename, store) ==
    LET up == UploadImageToStorage(buffer, filename, store)
    IN  [ret |-> up.ret,
         err |-> IF up.threw THEN Some("uploadImageToStorage threw") ELSE Null,
         uploads |-> <<[filename |-> filename, bytes |-> buffer]>>,
         mkdirs |-> 0, writes |-> <<>>,
         files |-> up.file, blobs |-> up.blob]

\* catch (error) { console.error(...); return null } of processImageResponse
ProcessCatch(r) == [r EXCEPT !.ret = Null, !.err = Null]

\* batch-illustrate: processImageResponse(response, pageIndex)
RECURSIVE ProcessPartsBatch(_, _, _, _)
ProcessPartsBatch(parts, i, pageIndex2, c) ==
    IF i > Len(parts) THEN NoEffects
    ELSE IF Present(parts[i].inlineData) /\ TruthyStr(ImageDataOf(parts[i]))
    THEN LET r == ViaUpload(BufferFromBase64(Val(ImageDataOf(parts[i]))),
                            BatchFilename(c.ts, c.rnd, pageIndex2), c.store)
         IN  IF Present(r.err) THEN ProcessCatch(r) ELSE r
    ELSE ProcessPartsBatch(parts, i + 1, pageIndex2, c)

ProcessImageResponseBatch(resp, pageIndex2, c) ==
    IF Present(PartsOf(resp))
    THEN ProcessPartsBatch(Val(PartsOf(resp)), 1, pageIndex2, c)
    ELSE NoEffects

\* advanced-illustrate: processImageResponse(response, pageIndex?)
RECURSIVE ProcessPartsAdvanced(_, _, _, _)
ProcessPartsAdvanced(parts, i, pageIndex, c) ==
    IF i > Len(parts) THEN NoEffects
    ELSE IF Present(parts[i].inlineData) /\ TruthyStr(ImageDataOf(parts[i]))
    THEN LET r == ViaUpload(BufferFromBase64(Val(ImageDataOf(parts[i]))),
                            AdvancedFilename(c.ts, c.rnd, pageIndex), c.store)
         IN  IF Present(r.err) THEN ProcessCatch(r) ELSE r
    ELSE ProcessPartsAdvanced(parts, i + 1, pageIndex, c)

ProcessImageResponseAdvanced(resp, pageIndex, c) ==
    IF Present(PartsOf(resp))
    THEN ProcessPartsAdvanced(Val(PartsOf(resp)), 1, pageIndex, c)
    ELSE NoEffects

\* illustrate route (filesystem variant) and generateIllustration write the file
\* themselves: fs is what mkdir and writeFile answer
DirectWrite(r, buffer, filename, fs) ==
    IF fs.write = "throw"
    THEN [r EXCEPT !.writes = Append(@, [path |-> ImagePath(filename), bytes |-> buffer]),
                   !.err = Some("EACCES: writeFile")]
    ELSE [r EXCEPT !.writes = Append(@, [path |-> ImagePath(filename), bytes |-> buffer]),
                   !.files = @ \cup {[path |-> ImagePath(filename), bytes |-> buffer]},
                   !.ret = Some(LocalUrl(filename))]

DirectMkdir(r, fs) ==
    IF fs.mkdir = "throw"
    THEN [r EXCEPT !.mkdirs = @ + 1, !.err = Some("EACCES: mkdir")]
    ELSE [r EXCEPT !.mkdirs = @ + 1]

\* catch (error) { console.error(...); return null } of generateIllustration
GenerateCatch(r) == [r EXCEPT !.ret = Null, !.err = Null]

\* generateIllustration as two passes: a full pass for inline data, then a pass
\* for data URLs in the parts' text
ScanGenerateTwoPasses(parts, i, c, r) ==
    LET filename == IllustrationFilename(c.ts, c.rnd)
        inl == {j \in i..Len(parts) :
                    Present(parts[j].inlineData) /\ TruthyStr(ImageDataOf(parts[j]))}
        txt == {j \in i..Len(parts) :
                    /\ TruthyStr(parts[j].text)
                    /\ HasToken(Val(parts[j].text), "data:image")
                    /\ TruthyStr(SplitComma1(Val(parts[j].text)))}
        first(S) == CHOOSE j \in S : \A k \in S : j <= k
        store(str) ==
            LET m == DirectMkdir(r, c.fs)
                w == DirectWrite(m, BufferFromBase64(str), filename, c.fs)
            IN  IF Present(m.err) THEN GenerateCatch(m)
                ELSE IF Present(w.err) THEN GenerateCatch(w) ELSE w
    IN  IF inl # {} THEN store(Val(ImageDataOf(parts[first(inl)])))
        ELSE IF txt # {} THEN store(Val(SplitComma1(Val(parts[first(txt)].text))))
        ELSE r

\* generate route: generateIllustration, the scan of the parts.  r carries the
\* effects so far (a part with inlineData but no data makes the directory and the
\* scan goes on).
RECURSIVE ScanGenerate(_, _, _, _)
ScanGenerate(parts, i, c, r) ==
    IF i > Len(parts) THEN r
    ELSE
      LET part == parts[i]
          filename == IllustrationFilename(c.ts, c.rnd)
          hasInline == Present(part.inlineData)
          \* inlineData branch: mkdir, then the write if there is data
          r1 == IF hasInline THEN DirectMkdir(r, c.fs) ELSE r
          inlineWrites == hasInline /\ ~Present(r1.err) /\ TruthyStr(ImageDataOf(part))
          \* text branch
          isUrl == TruthyStr(part.text) /\ HasToken(Val(part.text), "data:image")
          base64Data == IF isUrl THEN SplitComma1(Val(part.text)) ELSE Null
          r2 == IF TruthyStr(base64Data) THEN DirectMkdir(r1, c.fs) ELSE r1
      IN  IF Present(r1.err) THEN GenerateCatch(r1)
          ELSE IF inlineWrites
          THEN LET w == DirectWrite(r1, BufferFromBase64(Val(ImageDataOf(part))), filename, c.fs)
               IN  IF Present(w.err) THEN GenerateCatch(w) ELSE w
          ELSE IF TruthyStr(base64Data)
          THEN IF Present(r2.err) THEN GenerateCatch(r2)
               ELSE LET w == DirectWrite(r2, BufferFromBase64(Val(base64Data)), filename, c.fs)
                    IN  IF Present(w.err) THEN GenerateCatch(w) ELSE w
          ELSE ScanGenerate(parts, i + 1, c, r1)

\* generateIllustration(ai, prompt): [ret, gen, effects]
GenerateIllustration(prompt, c) ==
    LET sent == <<ComposeGenerate(prompt)>>
        r == IF c.gen.kind = "throw" THEN GenerateCatch(NoEffects)
             ELSE IF Present(PartsOf(c.gen.resp))
             THEN ScanGenerate(Val(PartsOf(c.gen.resp)), 1, c, NoEffects)
             ELSE NoEffects
    IN  [fx |-> r, gen |-> sent]

\* illustrate route, storage variant: the scan of the parts; an exception is
\* returned as err, for POST's catch
RECURSIVE ScanIllustrate(_, _, _)
ScanIllustrate(parts, i, c) ==
    IF i > Len(parts) THEN NoEffects
    ELSE IF Present(parts[i].inlineData)
    THEN IF TruthyStr(ImageDataOf(parts[i]))
         THEN LET r == ViaUpload(BufferFromBase64(Val(ImageDataOf(parts[i]))),
                                 IllustrationFilename(c.ts, c.rnd), c.store)
              IN  IF Present(r.err) \/ Present(r.ret) THEN r
                  ELSE [r EXCEPT !.err = Some("Failed to upload image to storage")]
         ELSE [NoEffects EXCEPT !.err = Some("No image data received")]
    ELSE ScanIllustrate(parts, i + 1, c)

\* illustrate route, filesystem variant: the scan of the parts
RECURSIVE ScanIllustrateFs(_, _, _)
ScanIllustrateFs(parts, i, c) ==
    IF i > Len(parts) THEN NoEffects
    ELSE IF Present(parts[i].inlineData)
    THEN LET r1 == DirectMkdir(NoEffects, c.fs)
         IN  IF Present(r1.err) THEN r1
             ELSE IF TruthyStr(ImageDataOf(parts[i]))
             THEN DirectWrite(r1, BufferFromBase64(Val(ImageDataOf(parts[i]))),
                              IllustrationFilename(c.ts, c.rnd), c.fs)
             ELSE [r1 EXCEPT !.err = Some("No image data received")]
    ELSE ScanIllustrateFs(parts, i + 1, c)

----------------------------------------------------------------------------
(* Route handlers of the single-image routes                               *)
(*                                                                         *)
(* A raw body holds every field as an optional value.  c is one request:   *)
(* [cred, body, gen, ts, rnd, store, fs], gen being what generateContent   *)
(* answers: [kind |-> "throw", message |-> the error's message] or         *)
(* [kind |-> "ok", resp |-> the response]; ts and rnd are what Date.now()  *)
(* and Math.random() give.                                                 *)

MinPromptLength == 5
MinPageCount == 1
MaxPageCount == 5

\* BodySchema.safeParse(body) of illustrate and advanced-illustrate; the default of
\* consistencyMode differs between the variants
BadFields(body, advanced) ==
    {f \in {"prompt"} : ~Present(body.prompt) \/ Len(Val(body.prompt)) < MinPromptLength}
    \cup {f \in {"style"} : Present(body.style) /\ Val(body.style) \notin Styles}
    \cup {f \in {"pageCount"} : advanced /\ Present(body.pageCount)
                                 /\ (Val(body.pageCount) < MinPageCount
                                     \/ Val(body.pageCount) > MaxPageCount)}

Default(o, d) == IF Present(o) THEN Val(o) ELSE d

ParseSingle(body, advanced, defaultConsistency) ==
    [success |-> BadFields(body, advanced) = {},
     details |-> BadFields(body, advanced),
     data |-> [prompt |-> Default(body.prompt, <<>>),
               characterDescription |-> body.characterDescription,
               previousImageUrl |-> body.previousImageUrl,
               style |-> Default(body.style, "realistic"),
               consistencyMode |-> Default(body.consistencyMode, defaultConsistency),
               editMode |-> Default(body.editMode, FALSE),
               fusionMode |-> Default(body.fusionMode, FALSE),
               batchGenerate |-> Default(body.batchGenerate, FALSE),
               pageCount |-> Default(body.pageCount, 1)]]

\* NextResponse.json(...) of a single-image route, with the calls the handler made
RouteReply(status, error, details, imageUrl, imageUrls, gen, fx) ==
    [done |-> TRUE, status |-> status, error |-> error, details |-> details,
     imageUrl |-> imageUrl, imageUrls |-> imageUrls, gen |-> gen, fx |-> fx]

MissingKey ==
    RouteReply(500, Some("Missing GOOGLE_GENAI_API_KEY"), {}, Null, <<>>, <<>>, NoEffects)
\* an answer to an invalid body that names no field
InvalidBodyNoDetails(details) ==
    RouteReply(400, Some("Invalid body"), {}, Null, <<>>, <<>>, NoEffects)

InvalidBody(details) ==
    RouteReply(400, Some("Invalid body"), details, Null, <<>>, <<>>, NoEffects)

\* illustrate route, storage variant: POST
IllustratePOST(c) ==
    LET parsed == ParseSingle(c.body, FALSE, TRUE)
        sent == <<ComposeIllustrate(parsed.data)>>
        r == IF Present(PartsOf(c.gen.resp))
             THEN ScanIllustrate(Val(PartsOf(c.gen.resp)), 1, c) ELSE NoEffects
    IN  IF ~c.cred THEN MissingKey
        ELSE IF ~parsed.success THEN InvalidBody(parsed.details)
        ELSE IF c.gen.kind = "throw"
        THEN RouteReply(500, Some(c.gen.message), {}, Null, <<>>, sent, NoEffects)
        ELSE IF Present(r.err) THEN RouteReply(500, r.err, {}, Null, <<>>, sent, r)
        ELSE IF Present(r.ret) THEN RouteReply(200, Null, {}, r.ret, <<>>, sent, r)
        ELSE RouteReply(502, Some("No image returned from model"), {}, Null, <<>>, sent, r)

\* illustrate route, filesystem variant: POST
IllustrateFsPOST(c) ==
    LET parsed == ParseSingle(c.body, FALSE, FALSE)
        sent == <<ComposeIllustrateFs(parsed.data)>>
        r == IF Present(PartsOf(c.gen.resp))
             THEN ScanIllustrateFs(Val(PartsOf(c.gen.resp)), 1, c) ELSE NoEffects
    IN  IF ~c.cred THEN MissingKey
        ELSE IF ~parsed.success THEN InvalidBody(parsed.details)
        ELSE IF c.gen.kind = "throw"
        THEN RouteReply(500, Some(c.gen.message), {}, Null, <<>>, sent, NoEffects)
        ELSE IF Present(r.err) THEN RouteReply(500, r.err, {}, Null, <<>>, sent, r)
        ELSE IF Present(r.ret) THEN RouteReply(200, Null, {}, r.ret, <<>>, sent, r)
        ELSE RouteReply(502, Some("No image returned from model"), {}, Null, <<>>, sent, r)

\* effects of one call after those of the calls before it
ThenEffects(a, b) ==
    [ret |-> b.ret, err |-> b.err, uploads |-> a.uploads \o b.uploads,
     mkdirs |-> a.mkdirs + b.mkdirs, writes |-> a.writes \o b.writes,
     files |-> a.files \cup b.files, blobs |-> a.blobs \cup b.blobs]

\* advanced-illustrate, batchGenerate: for (let i = 0; i < pageCount; i++) {...};
\* every call of the loop gets the answer c.gen and the clock c.ts + i
RECURSIVE AdvancedLoop(_, _, _, _, _)
AdvancedLoop(d, i, c, imageUrls, acc) ==
    IF i >= d.pageCount THEN [imageUrls |-> imageUrls, gen |-> acc.gen, fx |-> acc.fx, thrown |-> FALSE]
    ELSE LET sent == Append(acc.gen, ComposeAdvancedPage(d, i))
         IN  IF c.gen.kind = "throw"
             THEN [imageUrls |-> imageUrls, gen |-> sent, fx |-> acc.fx, thrown |-> TRUE]
             ELSE LET r == ProcessImageResponseAdvanced(c.gen.resp, Some(i),
                                                        [c EXCEPT !.ts = c.ts + i])
                  IN  AdvancedLoop(d, i + 1, c,
                                   IF Present(r.ret) THEN Append(imageUrls, Val(r.ret))
                                   ELSE imageUrls,
                                   [gen |-> sent, fx |-> ThenEffects(acc.fx, r)])

\* advanced-illustrate route: POST
AdvancedPOST(c) ==
    LET parsed == ParseSingle(c.body, TRUE, FALSE)
        d == parsed.data
        loop == AdvancedLoop(d, 0, c, <<>>, [gen |-> <<>>, fx |-> NoEffects])
        sent == <<ComposeAdvanced(d)>>
        r == ProcessImageResponseAdvanced(c.gen.resp, Null, c)
    IN  IF ~c.cred THEN MissingKey
        ELSE IF ~parsed.success THEN InvalidBody(parsed.details)
        ELSE IF d.batchGenerate /\ d.pageCount > 1
        THEN IF loop.thrown
             THEN RouteReply(500, Some(c.gen.message), {}, Null, <<>>,
                             loop.gen, loop.fx)
             ELSE RouteReply(200, Null, {}, Null, loop.imageUrls, loop.gen, loop.fx)
        ELSE IF c.gen.kind = "throw"
        THEN RouteReply(500, Some(c.gen.message), {}, Null, <<>>, sent, NoEffects)
        ELSE IF Present(r.ret) THEN RouteReply(200, Null, {}, r.ret, <<>>, sent, r)
        ELSE RouteReply(502, Some("No image returned from model"), {}, Null, <<>>, sent, r)

----------------------------------------------------------------------------
(* Batch orchestrator: batch-illustrate                                    *)
(*                                                                         *)
(* batchSize is any number the schema accepts, z.number().min(1).max(5):   *)
(* the model draws it from the multiples of 1/2 and holds it, like every   *)
(* number computed from it (startIndex, endIndex, globalPageIndex, the     *)
(* pageIndex of a result), as twice its value.                             *)

MinBatchSize == 1
MaxBatchSize == 5
DefaultBatchSize == 3

\* BodySchema.safeParse(body) of batch-illustrate
BadBatchFields(body) ==
    {f \in {"bookId"} : ~Present(body.bookId)}
    \cup {f \in {"style"} : Present(body.style) /\ Val(body.style) \notin Styles}
    \cup {f \in {"batchSize"} : Present(body.batchSize2)
                                 /\ (Val(body.batchSize2) < 2 * MinBatchSize
                                     \/ Val(body.batchSize2) > 2 * MaxBatchSize)}

ParseBatch(body) ==
    [success |-> BadBatchFields(body) = {},
     details |-> BadBatchFields(body),
     data |-> [bookId |-> Default(body.bookId, <<>>),
               pages |-> body.pages,
               characterDescription |-> body.characterDescription,
               style |-> Default(body.style, "realistic"),
               consistencyMode |-> Default(body.consistencyMode, TRUE),
               fusionMode |-> Default(body.fusionMode, FALSE),
               batchSize2 |-> Default(body.batchSize2, 2 * DefaultBatchSize)]]

\* Math.ceil(pages.length / batchSize)
TotalBatches(n, batchSize2) == (2 * n + batchSize2 - 1) \div batchSize2

\* const startIndex = batchIndex * batchSize
StartIndex2(b, batchSize2) == b * batchSize2
\* const endIndex = Math.min(startIndex + batchSize, pages.length)
EndIndex2(b, n, batchSize2) ==
    IF StartIndex2(b, batchSize2) + batchSize2 < 2 * n
    THEN StartIndex2(b, batchSize2) + batchSize2 ELSE 2 * n

\* pages.slice(startIndex, endIndex): both ends truncated to integers; the input
\* positions (from 1) of the slice, in order
SlicePositions(b, n, batchSize2) ==
    LET from == StartIndex2(b, batchSize2) \div 2
        to == EndIndex2(b, n, batchSize2) \div 2
    IN  [i \in 1..(IF to > from THEN to - from ELSE 0) |-> from + i]

\* const globalPageIndex = startIndex + pageIndex, for the slice's element at
\* input position pos
GlobalPageIndex2(b, batchSize2, pos) ==
    StartIndex2(b, batchSize2)
        + 2 * ((pos - 1) - (StartIndex2(b, batchSize2) \div 2))

\* A BatchResult.  thrown marks an invocation whose promise rejected.
\* a failed result that carries an image URL all the same
FailedResultWithUrl(pageIndex2, message) ==
    [success |-> FALSE, pageIndex2 |-> pageIndex2, imageUrl |-> Some(<<"/images/">>),
     error |-> Some(message), prompt |-> Null, text |-> Null, features |-> Null,
     thrown |-> FALSE]

FailedResult(pageIndex2, message) ==
    [success |-> FALSE, pageIndex2 |-> pageIndex2, imageUrl |-> Null,
     error |-> Some(message), prompt |-> Null, text |-> Null, features |-> Null,
     thrown |-> FALSE]

SuccessResult(page, pageIndex2, imageUrl, d) ==
    [success |-> TRUE, pageIndex2 |-> pageIndex2, imageUrl |-> Some(imageUrl),
     error |-> Null, prompt |-> Some(page.prompt), text |-> Some(page.text),
     features |-> Some([style |-> d.style,
                        consistencyMode |-> IF d.consistencyMode THEN "Enabled" ELSE "Disabled",
                        fusionMode |-> IF d.fusionMode THEN "Enabled" ELSE "Disabled",
                        characterDescription |->
                            IF TruthyStr(d.characterDescription) THEN "Applied" ELSE "None"]),
     thrown |-> FALSE]

\* a catch that lets the exception out: the invocation's promise rejects
GeneratePageCatchRethrows(pageIndex2, message) ==
    [FailedResult(pageIndex2, message) EXCEPT !.thrown = TRUE]

\* catch (error) { console.error(...); return {success: false, pageIndex, error} }
GeneratePageCatch(pageIndex2, message) == FailedResult(pageIndex2, message)

\* generatePageIllustration(ai, page, pageIndex, characterDescription, style,
\* consistencyMode, fusionMode, pages): the prompt it sends, the result it
\* settles with, what it stored, and whether it got as far as awaiting the upload
GeneratePageIllustration(page, pageIndex2, d, c) ==
    LET sent == ComposeBatchPage(page.prompt, pageIndex2, d.characterDescription,
                                 d.style, d.consistencyMode, d.fusionMode)
        r == ProcessImageResponseBatch(c.gen.resp, pageIndex2, c)
    IN  IF c.gen.kind = "throw"
        THEN [sent |-> sent, fx |-> NoEffects, uploading |-> FALSE,
              result |-> GeneratePageCatch(pageIndex2, c.gen.message)]
        ELSE [sent |-> sent, fx |-> r, uploading |-> r.uploads # <<>>,
              result |-> IF Present(r.ret)
                         THEN SuccessResult(page, pageIndex2, Val(r.ret), d)
                         ELSE FailedResult(pageIndex2, "No image generated")]

\* Math.round((successful / total) * 100), null standing for NaN
SuccessRate(successful, total) ==
    IF total = 0 THEN Null ELSE Some((200 * successful + total) \div (2 * total))

\* The request state of POST
Accepted == req.cred /\ ParseBatch(req.body).success
Data == ParseBatch(req.body).data
NumPages == Len(req.body.pages)
Positions == 1..NumPages
ChunkOf(b) == SlicePositions(b, NumPages, Data.batchSize2)
InChunk(b) == {ChunkOf(b)[i] : i \in 1..Len(ChunkOf(b))}

\* the invocation POST makes for the page at input position pos in chunk b
Invocation(b, pos) ==
    GeneratePageIllustration(req.body.pages[pos],
                             GlobalPageIndex2(b, Data.batchSize2, pos), Data, env[pos])

NoResponse ==
    [done |-> FALSE, status |-> 0, error |-> Null, details |-> {},
     results |-> <<>>, failedResults |-> <<>>,
     summary |-> [totalPages |-> 0, successful |-> 0, failed |-> 0, successRate |-> Null],
     batchProcessing |-> [totalBatches |-> 0, batchSize2 |-> 0]]

ErrorResponse(status, message, details) ==
    [NoResponse EXCEPT !.done = TRUE, !.status = status, !.error = Some(message),
                       !.details = details]

\* POST up to the loop: the credential, the body
Receive ==
    /\ pc = "recv"
    /\ IF ~req.cred
       THEN /\ response' = ErrorResponse(500, "Missing GOOGLE_GENAI_API_KEY", {})
            /\ pc' = "done"
       ELSE IF ~ParseBatch(req.body).success
       THEN /\ response' = ErrorResponse(400, "Invalid body", ParseBatch(req.body).details)
            /\ pc' = "done"
       ELSE /\ response' = response
            /\ pc' = "loop"
    /\ UNCHANGED <<call, reply, req, env, batchIndex, stage, outcome, results,
                   genLog, pauses, run, firstRun, inject, overtaken, home>>

\* batchPages.map(async (page, pageIndex) => generatePageIllustration(...)): every
\* invocation of the chunk runs to its first await, the generation call
StartChunk ==
    /\ pc = "loop"
    /\ batchIndex < TotalBatches(NumPages, Data.batchSize2)
    /\ stage' = [pos \in Positions |->
                    IF pos \in InChunk(batchIndex) THEN "generating" ELSE stage[pos]]
    /\ genLog' = genLog \o [i \in 1..Len(ChunkOf(batchIndex)) |->
                    [pos |-> ChunkOf(batchIndex)[i],
                     prompt |-> Invocation(batchIndex, ChunkOf(batchIndex)[i]).sent]]
    /\ pc' = "await"
    /\ UNCHANGED <<call, reply, req, env, batchIndex, outcome, results, response,
                   pauses, run, firstRun, inject, overtaken, home>>

\* an invocation settles with result r; a rejected one rejects Promise.all, and
\* POST's catch answers
Settle(pos, r) ==
    /\ stage' = [stage EXCEPT ![pos] = IF r.success THEN "succeeded" ELSE "failed"]
    /\ outcome' = [outcome EXCEPT ![pos] = Some(r)]
    /\ overtaken' = (overtaken \/ \E q \in InChunk(batchIndex) :
                                        q < pos /\ ~Present(outcome[q]))
    /\ IF r.thrown /\ pc = "await"
       THEN /\ pc' = "done"
            /\ response' = ErrorResponse(500, Val(r.error), {})
       ELSE UNCHANGED <<pc, response>>

\* an invocation that issues its generation call once more when the first one
\* gave no image
GenReturnRetries(pos) ==
    /\ stage[pos] = "generating"
    /\ LET inv == Invocation(batchIndex, pos)
           issued == {i \in 1..Len(genLog) : genLog[i].pos = pos}
       IN  IF inv.uploading
           THEN /\ stage' = [stage EXCEPT ![pos] = "persisting"]
                /\ UNCHANGED <<outcome, pc, response, overtaken, genLog>>
           ELSE IF Cardinality(issued) = 1
           THEN /\ genLog' = Append(genLog, [pos |-> pos, prompt |-> inv.sent])
                /\ UNCHANGED <<stage, outcome, pc, response, overtaken>>
           ELSE /\ Settle(pos, inv.result)
                /\ UNCHANGED genLog
    /\ UNCHANGED <<call, reply, req, env, batchIndex, results, pauses,
                   run, firstRun, inject, home>>

\* the generation call of one invocation returns or throws; the parts are scanned
GenReturn(pos) ==
    /\ stage[pos] = "generating"
    /\ LET inv == Invocation(batchIndex, pos)
       IN  IF inv.uploading
           THEN /\ stage' = [stage EXCEPT ![pos] = "persisting"]
                /\ UNCHANGED <<outcome, pc, response, overtaken>>
           ELSE Settle(pos, inv.result)
    /\ UNCHANGED <<call, reply, req, env, batchIndex, results, genLog, pauses,
                   run, firstRun, inject, home>>

\* uploadImageToStorage of one invocation returns
PersistReturn(pos) ==
    /\ stage[pos] = "persisting"
    /\ Settle(pos, Invocation(batchIndex, pos).result)
    /\ UNCHANGED <<call, reply, req, env, batchIndex, results, genLog, pauses,
                   run, firstRun, inject, home>>

\* a POST that goes on to the next chunk without the pause
ChunkSettledNoPause ==
    /\ pc = "await"
    /\ \A pos \in InChunk(batchIndex) : Present(outcome[pos])
    /\ results' = results \o [i \in 1..Len(ChunkOf(batchIndex)) |->
                                 Val(outcome[ChunkOf(batchIndex)[i]])]
    /\ pc' = "loop" /\ batchIndex' = batchIndex + 1
    /\ UNCHANGED <<call, reply, req, env, stage, outcome, response, genLog, pauses,
                   run, firstRun, inject, overtaken, home>>

\* a POST that pushes the results of a chunk last page first
ChunkSettledReversed ==
    /\ pc = "await"
    /\ \A pos \in InChunk(batchIndex) : Present(outcome[pos])
    /\ results' = results \o [i \in 1..Len(ChunkOf(batchIndex)) |->
                    Val(outcome[ChunkOf(batchIndex)[Len(ChunkOf(batchIndex)) + 1 - i]])]
    /\ IF batchIndex < TotalBatches(NumPages, Data.batchSize2) - 1
       THEN pc' = "pause" /\ batchIndex' = batchIndex
       ELSE pc' = "loop" /\ batchIndex' = batchIndex + 1
    /\ UNCHANGED <<call, reply, req, env, stage, outcome, response, genLog, pauses,
                   run, firstRun, inject, overtaken, home>>

\* const batchResults = await Promise.all(batchPromises); results.push(...batchResults)
ChunkSettled ==
    /\ pc = "await"
    /\ \A pos \in InChunk(batchIndex) : Present(outcome[pos])
    /\ results' = results \o [i \in 1..Len(ChunkOf(batchIndex)) |->
                                 Val(outcome[ChunkOf(batchIndex)[i]])]
    /\ IF batchIndex < TotalBatches(NumPages, Data.batchSize2) - 1
       THEN pc' = "pause" /\ batchIndex' = batchIndex
       ELSE pc' = "loop" /\ batchIndex' = batchIndex + 1
    /\ UNCHANGED <<call, reply, req, env, stage, outcome, response, genLog, pauses,
                   run, firstRun, inject, overtaken, home>>

\* a pause whose timer never fires
PauseNeverElapses ==
    /\ pc = "pause" /\ pauses < 0
    /\ UNCHANGED vars

\* await new Promise(resolve => setTimeout(resolve, 1000))
PauseElapsed ==
    /\ pc = "pause"
    /\ pauses' = pauses + 1
    /\ batchIndex' = batchIndex + 1
    /\ pc' = "loop"
    /\ UNCHANGED <<call, reply, req, env, stage, outcome, results, response, genLog,
                   run, firstRun, inject, overtaken, home>>

IsSuccess(r) == r.success
IsFailure(r) == ~r.success

\* after the loop: the two filters and the response
Respond ==
    /\ pc = "loop"
    /\ batchIndex >= TotalBatches(NumPages, Data.batchSize2)
    /\ LET successfulResults == SelectSeq(results, IsSuccess)
           failedResults == SelectSeq(results, IsFailure)
       IN  response' =
             [done |-> TRUE, status |-> 200, error |-> Null, details |-> {},
              results |-> successfulResults, failedResults |-> failedResults,
              summary |-> [totalPages |-> NumPages,
                           successful |-> Len(successfulResults),
                           failed |-> Len(failedResults),
                           successRate |-> SuccessRate(Len(successfulResults), NumPages)],
              batchProcessing |->
                  [totalBatches |-> TotalBatches(NumPages, Data.batchSize2),
                   batchSize2 |-> Data.batchSize2]]
    /\ pc' = "done"
    /\ UNCHANGED <<call, reply, req, env, batchIndex, stage, outcome, results, genLog,
                   pauses, run, firstRun, inject, overtaken, home>>

----------------------------------------------------------------------------
(* Inputs *)

MaxParts == 2     \* parts of a generation response
MaxPages == 3     \* pages of a batch request

\* the inlineData and the text of a part at position i, by kind
InlineKinds == {"absent", "nodata", "empty", "data"}
TextKinds == {"absent", "plain", "url", "nocomma", "commafirst"}

InlineB64(i) ==
    CASE i = 1 -> "aW5saW5lMQ==" [] i = 2 -> "aW5saW5lMg=="
      [] i = 3 -> "aW5saW5lMw==" [] OTHER -> "aW5saW5lNA=="
TextB64(i) ==
    CASE i = 1 -> "dGV4dDE=" [] i = 2 -> "dGV4dDI="
      [] i = 3 -> "dGV4dDM=" [] OTHER -> "dGV4dDQ="

MakePart(k, i) ==
    [inlineData |->
        CASE k.inline = "absent" -> Null
          [] k.inline = "nodata" -> Some([data |-> Null])
          [] k.inline = "empty" -> Some([data |-> Some(<<>>)])
          [] OTHER -> Some([data |-> Some(<<InlineB64(i)>>)]),
     text |->
        CASE k.text = "absent" -> Null
          [] k.text = "plain" -> Some(<<"Here is the picture.">>)
          [] k.text = "url" -> Some(<<"data:image", "/png;base64", ",", TextB64(i)>>)
          [] k.text = "nocomma" -> Some(<<"data:image", "/png;base64">>)
          [] OTHER -> Some(<<"Look", ",", "data:image", "/png;base64", ",", TextB64(i)>>)]

WithParts(parts) == [candidates |-> Some(<<[content |-> Some([parts |-> parts])]>>)]

PartLists ==
    UNION {{[i \in 1..n |-> MakePart(ks[i], i)] :
                ks \in [1..n -> [inline : InlineKinds, text : TextKinds]]} : n \in 0..MaxParts}

Responses ==
    {[candidates |-> Null], [candidates |-> Some(<<>>)],
     [candidates |-> Some(<<[content |-> Null]>>)], WithParts(Null)}
    \cup {WithParts(Some(ps)) : ps \in PartLists}

RespImage == WithParts(Some(<<MakePart([inline |-> "data", text |-> "absent"], 1)>>))
RespNoImage == WithParts(Some(<<MakePart([inline |-> "absent", text |-> "plain"], 1)>>))

GenThrow == [kind |-> "throw", resp |-> [candidates |-> Null],
             message |-> "503 Service Unavailable"]
GenOk(resp) == [kind |-> "ok", resp |-> resp, message |-> ""]

StoreOk == [admin |-> TRUE, list |-> "ok", buckets |-> {BucketName}, create |-> "ok",
            upload |-> "ok", mkdir |-> "ok", write |-> "ok"]
StoreLocal == [StoreOk EXCEPT !.upload = "error"]
StoreFail == [StoreOk EXCEPT !.upload = "error", !.write = "throw"]
FsOk == [mkdir |-> "ok", write |-> "ok"]

Clock == 1700
RandomId == "k3x9a1"

ScenePrompts ==
    {<<"w", "a", "v", "e">>, <<"w", "a", "v", "e", "s">>, <<"a", " ", "f", "o", "x">>}
Descriptions == {Null, Some(<<>>), Some(<<"r", "e", "d">>)}
StyleChoices == {Null, Some("oil")} \cup {Some(st) : st \in Styles}
Flags == {Null, Some(TRUE), Some(FALSE)}

SingleBodies ==
    [prompt : {Null} \cup {Some(sp) : sp \in ScenePrompts},
     characterDescription : Descriptions, previousImageUrl : {Null, Some(<<"u">>)},
     style : StyleChoices, consistencyMode : Flags, editMode : {Null, Some(TRUE)},
     fusionMode : {Null}, batchGenerate : {Null}, pageCount : {Null}]

AdvancedBodies ==
    [prompt : {Null} \cup {Some(sp) : sp \in ScenePrompts},
     characterDescription : Descriptions, previousImageUrl : {Null, Some(<<"u">>)},
     style : StyleChoices, consistencyMode : Flags, editMode : {Null, Some(TRUE)},
     fusionMode : {Null, Some(TRUE)}, batchGenerate : {Null, Some(TRUE)},
     pageCount : {Null, Some(0), Some(3), Some(6)}]

\* the arguments POST of batch-illustrate passes for one page, before the defaults
PageBodies ==
    [prompt : {Some(<<>>)} \cup {Some(sp) : sp \in ScenePrompts},
     characterDescription : Descriptions, previousImageUrl : {Null},
     style : {Null} \cup {Some(st) : st \in Styles}, consistencyMode : Flags,
     editMode : {Null}, fusionMode : {Null, Some(TRUE)}, batchGenerate : {Null},
     pageCount : {Null}]

PlainBody ==
    [prompt |-> Some(<<"w", "a", "v", "e", "s">>), characterDescription |-> Null,
     previousImageUrl |-> Null, style |-> Null, consistencyMode |-> Null,
     editMode |-> Null, fusionMode |-> Null, batchGenerate |-> Null, pageCount |-> Null]

MakeCall(fn, cred, body, gen, store, fs, pageIndex2) ==
    [fn |-> fn, cred |-> cred, body |-> body, gen |-> gen, ts |-> Clock,
     rnd |-> RandomId, store |-> store, fs |-> fs, pageIndex2 |-> pageIndex2]

IdleCall == MakeCall("none", FALSE, PlainBody, GenThrow, StoreOk, FsOk, 0)
NoReply == [done |-> FALSE]

----------------------------------------------------------------------------
(* One invocation of a route handler or of a helper *)

\* the body POST of batch-illustrate would have parsed for the one page of call
PageRequest(c) ==
    [bookId |-> Some(<<"b", "1">>),
     pages |-> <<[text |-> <<"O", "n", "c", "e">>, prompt |-> Val(c.body.prompt),
                  pageIndex2 |-> c.pageIndex2]>>,
     characterDescription |-> c.body.characterDescription, style |-> c.body.style,
     consistencyMode |-> c.body.consistencyMode, fusionMode |-> c.body.fusionMode,
     batchSize2 |-> Null]

\* the filename the caller of uploadImageToStorage made
UploadFilename(c) ==
    IF c.pageIndex2 = 0 THEN IllustrationFilename(c.ts, c.rnd)
    ELSE BatchFilename(c.ts, c.rnd, c.pageIndex2)

CallUpload ==
    /\ call.fn = "uploadImageToStorage" /\ ~reply.done
    /\ reply' = [done |-> TRUE,
                 up |-> UploadImageToStorage("inline1", UploadFilename(call), call.store)]
    /\ UNCHANGED <<call, req, env, pc, batchIndex, stage, outcome, results, response,
                   genLog, pauses, run, firstRun, inject, overtaken, home>>

CallIllustrate ==
    /\ call.fn = "illustrate" /\ ~reply.done
    /\ reply' = IllustratePOST(call)
    /\ UNCHANGED <<call, req, env, pc, batchIndex, stage, outcome, results, response,
                   genLog, pauses, run, firstRun, inject, overtaken, home>>

CallIllustrateFs ==
    /\ call.fn = "illustrateFs" /\ ~reply.done
    /\ reply' = IllustrateFsPOST(call)
    /\ UNCHANGED <<call, req, env, pc, batchIndex, stage, outcome, results, response,
                   genLog, pauses, run, firstRun, inject, overtaken, home>>

CallAdvanced ==
    /\ call.fn = "advanced" /\ ~reply.done
    /\ reply' = AdvancedPOST(call)
    /\ UNCHANGED <<call, req, env, pc, batchIndex, stage, outcome, results, response,
                   genLog, pauses, run, firstRun, inject, overtaken, home>>

CallGeneratePage ==
    /\ call.fn = "generatePageIllustration" /\ ~reply.done
    /\ LET inv == GeneratePageIllustration(PageRequest(call).pages[1], call.pageIndex2,
                                           ParseBatch(PageRequest(call)).data, call)
       IN  reply' = [done |-> TRUE, result |-> inv.result, gen |-> <<inv.sent>>,
                     fx |-> inv.fx]
    /\ UNCHANGED <<call, req, env, pc, batchIndex, stage, outcome, results, response,
                   genLog, pauses, run, firstRun, inject, overtaken, home>>

CallGenerateIllustration ==
    /\ call.fn = "generateIllustration" /\ ~reply.done
    /\ LET g == GenerateIllustration(Val(call.body.prompt), call)
       IN  reply' = [done |-> TRUE, gen |-> g.gen, fx |-> g.fx]
    /\ UNCHANGED <<call, req, env, pc, batchIndex, stage, outcome, results, response,
                   genLog, pauses, run, firstRun, inject, overtaken, home>>

NextCall ==
    \/ CallIllustrate
    \/ CallIllustrateFs
    \/ CallAdvanced
    \/ CallGeneratePage
    \/ CallGenerateIllustration

----------------------------------------------------------------------------
(* Specifications *)

PageAt(pos, supplied) ==
    [text |-> <<"t", ToString(pos)>>,
     prompt |-> <<"s", "c", "e", "n", "e", ToString(pos)>>,
     pageIndex2 |-> IF supplied = "position" THEN 2 * (pos - 1) ELSE 2 * pos]

\* batchSize: absent, 0.5, 1, 1.5, 2, 5, 5.5
BatchSizeChoices == {Null, Some(1), Some(2), Some(3), Some(4), Some(10), Some(11)}

BatchBodies ==
    {[bookId |-> Some(<<"b", "1">>),
      pages |-> [pos \in 1..n |-> PageAt(pos, supplied)],
      characterDescription |-> Some(<<"r", "e", "d">>), style |-> st,
      consistencyMode |-> Null, fusionMode |-> Null, batchSize2 |-> bs] :
        n \in 0..MaxPages, supplied \in {"position", "book"},
        st \in {Null, Some("oil")}, bs \in BatchSizeChoices}

PageEnv(gen, store) ==
    [gen |-> gen, ts |-> Clock, rnd |-> RandomId, store |-> store]
\* per page what the model answers; the storage service answers every page of
\* one request alike
PageGens == {GenThrow, GenOk(RespNoImage), GenOk(RespImage)}
PageStores == {StoreOk, StoreLocal, StoreFail}
PageEnvLists(n) ==
    {[pos \in 1..n |-> PageEnv(gens[pos], store)] :
        gens \in [1..n -> PageGens], store \in PageStores}

\* the home page is not part of the run
HomeOff == [on |-> FALSE]

BatchOff ==
    /\ req = [cred |-> FALSE, body |-> CHOOSE b \in BatchBodies : Len(b.pages) = 0]
    /\ env = <<>> /\ pc = "off" /\ batchIndex = 0 /\ stage = <<>> /\ outcome = <<>>
    /\ results = <<>> /\ response = NoResponse /\ genLog = <<>> /\ pauses = 0
    /\ run = 0 /\ firstRun = [outcome |-> <<>>, response |-> NoResponse]
    /\ inject = [pos |-> 0, mode |-> "none"] /\ overtaken = FALSE /\ home = HomeOff

Init ==
    /\ call = IdleCall /\ reply = NoReply
    /\ req \in [cred : BOOLEAN, body : BatchBodies]
    /\ env \in PageEnvLists(Len(req.body.pages))
    /\ pc = "recv" /\ batchIndex = 0
    /\ stage = [pos \in 1..Len(req.body.pages) |-> "pending"]
    /\ outcome = [pos \in 1..Len(req.body.pages) |-> Null]
    /\ results = <<>> /\ response = NoResponse /\ genLog = <<>> /\ pauses = 0
    /\ run = 1 /\ firstRun = [outcome |-> <<>>, response |-> NoResponse]
    /\ inject = [pos |-> 0, mode |-> "none"] /\ overtaken = FALSE /\ home = HomeOff

\* the same page with a failure put into its pipeline
FailModes == {"generation", "extraction", "persistence"}
WithFailure(e, mode) ==
    CASE mode = "generation" -> [e EXCEPT !.gen = GenThrow]
      [] mode = "extraction" -> [e EXCEPT !.gen = GenOk(RespNoImage)]
      [] OTHER -> [e EXCEPT !.store = StoreFail]

\* the same request again, from the same start, with the pipeline of a page that
\* succeeded now failing
Rerun ==
    /\ pc = "done" /\ run = 1 /\ response.status = 200
    /\ \E k \in Positions, mode \in FailModes :
          /\ Val(outcome[k]).success
          /\ env' = [env EXCEPT ![k] = WithFailure(env[k], mode)]
          /\ inject' = [pos |-> k, mode |-> mode]
    /\ overtaken' = FALSE
    /\ firstRun' = [outcome |-> outcome, response |-> response]
    /\ run' = 2 /\ pc' = "recv" /\ batchIndex' = 0
    /\ stage' = [pos \in Positions |-> "pending"]
    /\ outcome' = [pos \in Positions |-> Null]
    /\ results' = <<>> /\ response' = NoResponse /\ genLog' = <<>> /\ pauses' = 0
    /\ UNCHANGED <<call, reply, req, home>>

Next ==
    \/ Receive
    \/ StartChunk
    \/ \E pos \in Positions : GenReturn(pos)
    \/ \E pos \in Positions : PersistReturn(pos)
    \/ ChunkSettled
    \/ PauseElapsed
    \/ Respond
    \/ Rerun

Spec == Init /\ [][Next]_vars

\* a step of the request: POST going on, an awaited call returning or failing,
\* the timer firing
Progress ==
    \/ Receive
    \/ StartChunk
    \/ \E pos \in Positions : GenReturn(pos)
    \/ \E pos \in Positions : PersistReturn(pos)
    \/ ChunkSettled
    \/ PauseElapsed
    \/ Respond

\* the request does not stand still while a step of it is possible
Fairness == WF_vars(Progress)

MaxFairPages == 2    \* pages of a batch request whose termination is checked

\* requests of chunks of one page, the storage service answering or failing
InitFair ==
    /\ Init
    /\ Len(req.body.pages) <= MaxFairPages
    /\ req.body.batchSize2 = Some(2) /\ req.body.style = Null
    /\ \A pos \in 1..Len(req.body.pages) :
          /\ req.body.pages[pos].pageIndex2 = 2 * (pos - 1)
          /\ env[pos].store \in {StoreOk, StoreFail}

SpecFair == InitFair /\ [][Next]_vars /\ Fairness

\* the single-image routes and the per-page helpers, over requests of every shape
\* answered by one fixed response
InitPrompt ==
    /\ BatchOff /\ reply = NoReply
    /\ \/ \E fn \in {"illustrate", "illustrateFs"}, cred \in BOOLEAN, body \in SingleBodies,
            gen \in {GenThrow, GenOk(RespImage)} :
              call = MakeCall(fn, cred, body, gen, StoreOk, FsOk, 0)
       \/ \E cred \in BOOLEAN, body \in AdvancedBodies, gen \in {GenThrow, GenOk(RespImage)} :
              call = MakeCall("advanced", cred, body, gen, StoreOk, FsOk, 0)
       \/ \E body \in PageBodies, gen \in {GenThrow, GenOk(RespImage)}, p2 \in {0, 2, 3} :
              call = MakeCall("generatePageIllustration", TRUE, body, gen, StoreOk, FsOk, p2)
       \/ \E sp \in ScenePrompts, gen \in {GenThrow, GenOk(RespImage)} :
              call = MakeCall("generateIllustration", TRUE,
                              [PlainBody EXCEPT !.prompt = Some(sp)], gen, StoreOk, FsOk, 0)

SpecPrompt == InitPrompt /\ [][NextCall]_vars

\* the batch route and the single-image routes, over requests of every shape
SpecRequests == (Init \/ InitPrompt) /\ [][Next \/ NextCall]_vars

\* the same, over one request answered by responses of every shape
InitExtract ==
    /\ BatchOff /\ reply = NoReply
    /\ \E gen \in {GenThrow} \cup {GenOk(resp) : resp \in Responses} :
         \/ \E fn \in {"illustrate", "advanced", "generatePageIllustration"},
              store \in {StoreOk, StoreLocal, StoreFail} :
                call = MakeCall(fn, TRUE, PlainBody, gen, store, FsOk, 0)
         \/ \E fn \in {"illustrateFs", "generateIllustration"},
              fs \in [mkdir : FsOutcomes, write : FsOutcomes] :
                call = MakeCall(fn, TRUE, PlainBody, gen, StoreOk, fs, 0)

SpecExtract == InitExtract /\ [][NextCall]_vars

\* the batch route over requests of every shape, and the single-image routes
\* over one request answered by responses of every shape
SpecPipelines == (Init \/ InitExtract) /\ [][Next \/ NextCall]_vars

\* batch requests in which any of the pages may carry the empty string as prompt
BlankBodies ==
    {[bookId |-> Some(<<"b", "1">>),
      pages |-> [pos \in 1..n |->
                    [PageAt(pos, "position") EXCEPT
                        !.prompt = IF pos \in blank THEN <<>> ELSE @]],
      characterDescription |-> Some(<<"r", "e", "d">>), style |-> Null,
      consistencyMode |-> Null, fusionMode |-> Null, batchSize2 |-> bs] :
        n \in 0..MaxPages, blank \in SUBSET (1..MaxPages), bs \in {Some(4)}}

InitBlank ==
    /\ call = IdleCall /\ reply = NoReply
    /\ req \in [cred : BOOLEAN, body : BlankBodies]
    /\ env \in PageEnvLists(Len(req.body.pages))
    /\ pc = "recv" /\ batchIndex = 0
    /\ stage = [pos \in 1..Len(req.body.pages) |-> "pending"]
    /\ outcome = [pos \in 1..Len(req.body.pages) |-> Null]
    /\ results = <<>> /\ response = NoResponse /\ genLog = <<>> /\ pauses = 0
    /\ run = 1 /\ firstRun = [outcome |-> <<>>, response |-> NoResponse]
    /\ inject = [pos |-> 0, mode |-> "none"] /\ overtaken = FALSE /\ home = HomeOff

SpecBlank == InitBlank /\ [][Next]_vars

\* uploadImageToStorage over every answer of the storage service and the filesystem
InitUpload ==
    /\ BatchOff /\ reply = NoReply
    /\ \E o \in StoreOracles, p2 \in {0, 2} :
          call = MakeCall("uploadImageToStorage", TRUE, PlainBody, GenThrow, o, FsOk, p2)

SpecUpload == InitUpload /\ [][CallUpload]_vars

----------------------------------------------------------------------------
(* Retention sweep: POST of the cleanup route                              *)
(*                                                                         *)
(* A file name is a sequence of tokens, as the pipeline writes it.  c is   *)
(* one request: [readdir, files, unlinkFails], readdir "ok" or "throw",    *)
(* files the listing readdir answers, unlinkFails the names whose unlink   *)
(* rejects.                                                                *)

RetentionLimit == 50
MaxFiles == 52    \* files with a timestamp in the directory

\* the timestamps the names of the directory carry
Stamps == 0..(MaxFiles + 2)

\* parseInt(text): the number a decimal text stands for, null standing for NaN
ParseInt(text) ==
    IF Len(text) = 1 /\ \E k \in Stamps : ToString(k) = text[1]
    THEN Some(CHOOSE k \in Stamps : ToString(k) = text[1])
    ELSE Null

\* file.split("_")[1]: what lies between the first underscore and the second (or the end)
SplitUnderscore1(file) ==
    LET marks == {i \in 1..Len(file) : file[i] = "_"}
    IN  IF marks = {} THEN Null
        ELSE LET first == CHOOSE i \in marks : \A j \in marks : i <= j
                 rest == marks \ {first}
                 last == IF rest = {} THEN Len(file)
                         ELSE (CHOOSE i \in rest : \A j \in rest : i <= j) - 1
             IN  Some(SubSeq(file, first + 1, last))

\* file.startsWith("illustration_") && file.endsWith(".png")
IsImageFile(file) ==
    /\ Len(file) >= 2 /\ file[1] = "illustration" /\ file[2] = "_"
    /\ file[Len(file)] = ".png"

\* parseInt(file.split("_")[1]) || 0
TimestampOf(file) ==
    LET seg == SplitUnderscore1(file)
        n == IF Present(seg) THEN ParseInt(Val(seg)) ELSE Null
    IN  IF Present(n) THEN Val(n) ELSE 0

\* files.filter(...).map(file => ({name, timestamp}))
ImageFiles(files) ==
    LET kept == SelectSeq(files, IsImageFile)
    IN  [i \in 1..Len(kept) |-> [name |-> kept[i], timestamp |-> TimestampOf(kept[i])]]

\* a comparator that puts the oldest first
CompareOldestFirst(a, b) == a.timestamp - b.timestamp

\* (a, b) => b.timestamp - a.timestamp
CompareStamps(a, b) == b.timestamp - a.timestamp

\* .sort(compare): the stable sort; an entry goes behind those the comparator
\* puts before it and behind the equal ones listed before it
SortedFiles(imageFiles) ==
    LET n == Len(imageFiles)
        place(i) ==
            1 + Cardinality({j \in 1..n : CompareStamps(imageFiles[j], imageFiles[i]) < 0})
              + Cardinality({j \in 1..(i - 1) :
                                CompareStamps(imageFiles[j], imageFiles[i]) = 0})
    IN  [k \in 1..n |-> imageFiles[CHOOSE i \in 1..n : place(i) = k]]

\* sortedFiles.slice(0, 50), sortedFiles.slice(50)
FilesToKeep(sortedFiles) ==
    SubSeq(sortedFiles, 1, IF Len(sortedFiles) < RetentionLimit
                           THEN Len(sortedFiles) ELSE RetentionLimit)
FilesToDelete(sortedFiles) == SubSeq(sortedFiles, RetentionLimit + 1, Len(sortedFiles))

\* POST of the cleanup route: the answer, the unlink calls in order and the
\* files left in the directory
CleanupPOST(c) ==
    LET imageFiles == ImageFiles(c.files)
        sortedFiles == SortedFiles(imageFiles)
        filesToKeep == FilesToKeep(sortedFiles)
        filesToDelete == FilesToDelete(sortedFiles)
        unlinks == [i \in 1..Len(filesToDelete) |-> filesToDelete[i].name]
        gone == {unlinks[i] : i \in 1..Len(unlinks)} \ c.unlinkFails
    IN  IF c.readdir = "throw"
        THEN [done |-> TRUE, status |-> 500, error |-> Some("Cleanup failed"),
              deleted |-> 0, kept |-> 0, unlinks |-> <<>>,
              left |-> {c.files[i] : i \in 1..Len(c.files)}]
        ELSE [done |-> TRUE, status |-> 200, error |-> Null,
              deleted |-> Len(filesToDelete), kept |-> Len(filesToKeep),
              unlinks |-> unlinks,
              left |-> {c.files[i] : i \in 1..Len(c.files)} \ gone]

\* the directory: n files the illustrate route wrote, listed oldest first, newest
\* first or from the middle on, behind files of other kinds
StampedFile(k) == IllustrationFilename(k, RandomId)
OtherFiles ==
    [notes |-> <<"notes.txt">>,
     batch |-> BatchFilename(1, RandomId, 0),
     unstamped |-> <<"illustration", "_", "final", "_", RandomId, ".png">>,
     twin |-> IllustrationFilename(1, "zz81qp")]
OtherChoices ==
    {<<>>, <<OtherFiles.notes>>, <<OtherFiles.batch>>, <<OtherFiles.notes, OtherFiles.batch>>,
     <<OtherFiles.unstamped>>, <<OtherFiles.twin>>}
ListingOrders == {"oldestFirst", "newestFirst", "fromTheMiddle"}
Listing(n, order) ==
    [i \in 1..n |->
        StampedFile(CASE order = "oldestFirst" -> i
                      [] order = "newestFirst" -> n + 1 - i
                      [] OTHER -> ((i + (n \div 2) - 1) % n) + 1)]
SweepSizes == {0, 1, 2} \cup ((RetentionLimit - 1)..MaxFiles)

CallCleanup ==
    /\ call.fn = "cleanup" /\ ~reply.done
    /\ reply' = CleanupPOST(call)
    /\ UNCHANGED <<call, req, env, pc, batchIndex, stage, outcome, results, response,
                   genLog, pauses, run, firstRun, inject, overtaken, home>>

InitSweep ==
    /\ BatchOff /\ reply = NoReply
    /\ \E n \in SweepSizes, order \in ListingOrders, others \in OtherChoices,
          readdir \in FsOutcomes, fails \in {"none", "oldest"} :
            call = [fn |-> "cleanup", readdir |-> readdir,
                    files |-> others \o Listing(n, order),
                    unlinkFails |-> IF fails = "oldest" /\ n > 0
                                    THEN {StampedFile(1)} ELSE {}]

SpecSweep == InitSweep /\ [][CallCleanup]_vars

----------------------------------------------------------------------------
(* Image read route: GET                                                   *)
(*                                                                         *)
(* A path is a sequence of segments, a segment a sequence of tokens: the   *)
(* pieces of a name and the dots between them ("images2" is the tokens     *)
(* "images", "2"; ".." is two dots).  The text of a path puts a slash      *)
(* before each segment.                                                    *)

MaxSegments == 3    \* segments of the requested path

\* process.cwd()
Cwd == <<<<"app">>>>

\* path.join(...): "." and empty segments dropped, ".." takes the segment before
\* it away (none at the root)
RECURSIVE NormalizeFrom(_, _, _)
NormalizeFrom(segs, i, acc) ==
    IF i > Len(segs) THEN acc
    ELSE IF segs[i] = <<>> \/ segs[i] = <<".">>
    THEN NormalizeFrom(segs, i + 1, acc)
    ELSE IF segs[i] = <<".", ".">>
    THEN NormalizeFrom(segs, i + 1,
                       IF acc = <<>> THEN acc ELSE SubSeq(acc, 1, Len(acc) - 1))
    ELSE NormalizeFrom(segs, i + 1, Append(acc, segs[i]))

RECURSIVE PathText(_, _)
PathText(segs, i) ==
    IF i > Len(segs) THEN <<>>
    ELSE <<"/">> \o segs[i] \o PathText(segs, i + 1)

PathJoin(segs) == PathText(NormalizeFrom(segs, 1, <<>>), 1)

\* s.startsWith(t)
StartsWith(s, t) == Len(t) <= Len(s) /\ SubSeq(s, 1, Len(t)) = t

\* imagePath.startsWith(resolvedPath)
PassesSecurityCheck(imagePath, resolvedPath) == StartsWith(imagePath, resolvedPath)

\* s.toLowerCase(), token by token
LowerCase(s) ==
    [i \in 1..Len(s) |->
        CASE s[i] = "PNG" -> "png" [] s[i] = "JPG" -> "jpg" [] s[i] = "JPEG" -> "jpeg"
          [] s[i] = "GIF" -> "gif" [] s[i] = "WEBP" -> "webp" [] OTHER -> s[i]]

\* name.split('.').pop()?.toLowerCase(): what follows the last dot, the whole
\* name when it has none
Extension(name) ==
    LET dots == {i \in 1..Len(name) : name[i] = "."}
        last == IF dots = {} THEN 0 ELSE CHOOSE i \in dots : \A j \in dots : j <= i
    IN  LowerCase(SubSeq(name, last + 1, Len(name)))

\* switch (extension) {...}, 'image/png' to begin with
ContentType(extension) ==
    CASE extension \in {<<"jpg">>, <<"jpeg">>} -> "image/jpeg"
      [] extension = <<"png">> -> "image/png"
      [] extension = <<"gif">> -> "image/gif"
      [] extension = <<"webp">> -> "image/webp"
      [] OTHER -> "image/png"

CacheControl == "public, max-age=31536000, immutable"

\* GET of the image route: c is [path, disk], disk the files there are, by the
\* text of their path; read is the path handed to readFile
ImageGET(c) ==
    LET imagePath == PathJoin(Cwd \o <<<<"public">>, <<"images">>>> \o c.path)
        resolvedPath == PathJoin(Cwd \o <<<<"public">>, <<"images">>>>)
    IN  IF ~PassesSecurityCheck(imagePath, resolvedPath)
        THEN [done |-> TRUE, status |-> 403, body |-> <<"Forbidden">>, read |-> Null,
              contentType |-> Null, cacheControl |-> Null]
        ELSE IF imagePath \notin DOMAIN c.disk
        THEN [done |-> TRUE, status |-> 404, body |-> <<"Image not found">>,
              read |-> Some(imagePath), contentType |-> Null, cacheControl |-> Null]
        ELSE [done |-> TRUE, status |-> 200, body |-> c.disk[imagePath],
              read |-> Some(imagePath),
              contentType |-> Some(ContentType(Extension(c.path[Len(c.path)]))),
              cacheControl |-> Some(CacheControl)]

\* the files on the disk: two under public/images, the others outside it
FileAt(segs) == PathText(segs, 1)
Disk ==
    LET files == {<<Cwd \o <<<<"public">>, <<"images">>, <<"a", ".", "png">>>>, "a">>,
                  <<Cwd \o <<<<"public">>, <<"images">>, <<"sub">>, <<"b", ".", "JPG">>>>, "b">>,
                  <<Cwd \o <<<<"public">>, <<"images", "2">>, <<"secret", ".", "png">>>>, "s2">>,
                  <<Cwd \o <<<<"public">>, <<"secret", ".", "png">>>>, "s1">>,
                  <<Cwd \o <<<<"secret", ".", "png">>>>, "s0">>}
    IN  [t \in {FileAt(f[1]) : f \in files} |->
            <<(CHOOSE f \in files : FileAt(f[1]) = t)[2]>>]

Segments ==
    {<<".", ".">>, <<".">>, <<"images">>, <<"images", "2">>, <<"public">>, <<"sub">>,
     <<"a", ".", "png">>, <<"b", ".", "JPG">>, <<"secret", ".", "png">>}
RequestPaths == UNION {[1..n -> Segments] : n \in 1..MaxSegments}

CallImage ==
    /\ call.fn = "image" /\ ~reply.done
    /\ reply' = ImageGET(call)
    /\ UNCHANGED <<call, req, env, pc, batchIndex, stage, outcome, results, response,
                   genLog, pauses, run, firstRun, inject, overtaken, home>>

InitImage ==
    /\ BatchOff /\ reply = NoReply
    /\ \E path \in RequestPaths : call = [fn |-> "image", path |-> path, disk |-> Disk]

SpecImage == InitImage /\ [][CallImage]_vars

----------------------------------------------------------------------------
(* Home page (src/app/page.tsx): the reader and its two illustrate buttons  *)
(*                                                                         *)
(* home holds the React state of Home (books, active, activeId, pageIdx,   *)
(* isIllustrating, isBatchIllustrating), the pages column of the books     *)
(* table (db) and the two asynchronous functions, each with what its       *)
(* closure captured when it was called and how far it has got: "idle",     *)
(* "fetch" (awaiting the route), "update" (awaiting the table update),     *)
(* "resume" (the update is done, the function has not yet gone on).  A     *)
(* page index counts from 0 as in the code; sequences count from 1.        *)
(* requests counts the illustrate and batch requests the session has made. *)

BookIds == {"a", "b"}
MaxRequests == 2    \* illustrate and batch-illustrate requests of one session

BookPage(scene) ==
    [text |-> <<"O", "n", "c", "e">>, prompt |-> scene, imageUrl |-> Null]
Scene(k) == Some(<<"s", "c", "e", "n", "e", ToString(k)>>)

\* the libraries a session starts from: book a of two pages, the first with or
\* without a prompt, and book b of one page
Libraries ==
    {[a |-> <<BookPage(first), BookPage(Scene(2))>>,
      b |-> <<BookPage(Scene(3))>>] : first \in {Null, Scene(1)}}

\* what the outside world answers the pages of a batch request of the home page:
\* per page an image or an error
HomeEnvLists(n) ==
    {[pos \in 1..n |-> PageEnv(gens[pos], StoreOk)] :
        gens \in [1..n -> {GenThrow, GenOk(RespImage)}]}

IdleTask ==
    [pc |-> "idle", active |-> [id |-> "a", pages |-> <<>>], pageIdx |-> 0,
     updatedPages |-> <<>>, results |-> <<>>]

\* POST of batch-illustrate as one function of the body and of what the outside
\* world answers per page: every chunk's results pushed in input order, then the
\* two filters and the summary
BatchPOST(body, envs) ==
    LET d == ParseBatch(body).data
        n == Len(body.pages)
        chunkOf(pos) == CHOOSE b \in 0..(TotalBatches(n, d.batchSize2) - 1) :
                            \E i \in 1..Len(SlicePositions(b, n, d.batchSize2)) :
                                SlicePositions(b, n, d.batchSize2)[i] = pos
        all == [pos \in 1..n |->
                   GeneratePageIllustration(
                       body.pages[pos],
                       GlobalPageIndex2(chunkOf(pos), d.batchSize2, pos),
                       d, envs[pos]).result]
    IN  [NoResponse EXCEPT
            !.done = TRUE, !.status = 200,
            !.results = SelectSeq(all, IsSuccess),
            !.failedResults = SelectSeq(all, IsFailure),
            !.summary = [totalPages |-> n,
                         successful |-> Len(SelectSeq(all, IsSuccess)),
                         failed |-> Len(SelectSeq(all, IsFailure)),
                         successRate |-> SuccessRate(Len(SelectSeq(all, IsSuccess)), n)],
            !.batchProcessing = [totalBatches |-> TotalBatches(n, d.batchSize2),
                                 batchSize2 |-> d.batchSize2]]

\* the imageUrl advanced-illustrate answers a request of the home page with
SingleImageUrl == PublicUrl(AdvancedFilename(Clock, RandomId, Null))

\* active.pages.map((page, index) => ({...page, pageIndex: index})).filter(page => page.prompt)
PagesWithPrompts(pages) ==
    LET indexed == [i \in 1..Len(pages) |->
                       [text |-> pages[i].text, prompt |-> pages[i].prompt,
                        pageIndex2 |-> 2 * (i - 1)]]
        withPrompt == SelectSeq(indexed, LAMBDA p : TruthyStr(p.prompt))
    IN  [i \in 1..Len(withPrompt) |-> [withPrompt[i] EXCEPT !.prompt = Val(@)]]

\* the body batchIllustrateAllPages sends
BatchBodyOf(book) ==
    [bookId |-> Some(<<book.id>>), pages |-> PagesWithPrompts(book.pages),
     characterDescription |-> Null, style |-> Some("realistic"),
     consistencyMode |-> Some(TRUE), fusionMode |-> Some(TRUE), batchSize2 |-> Some(6)]

\* data.results.find(r => r.pageIndex === index), index counting from 0
FindResult(found, index) ==
    LET hits == {j \in 1..Len(found) : found[j].pageIndex2 = 2 * index}
    IN  IF hits = {} THEN Null
        ELSE Some(found[CHOOSE j \in hits : \A k \in hits : j <= k])

\* active.pages.map((p, i) => i === pageIdx ? {...p, imageUrl: url} : p)
WithImageAt(pages, pageIdx, url) ==
    [i \in 1..Len(pages) |->
        IF i - 1 = pageIdx THEN [pages[i] EXCEPT !.imageUrl = Some(url)] ELSE pages[i]]

\* active.pages.map((page, index) => result ? {...page, imageUrl: result.imageUrl} : page)
WithBatchResults(pages, found) ==
    [i \in 1..Len(pages) |->
        IF Present(FindResult(found, i - 1))
        THEN [pages[i] EXCEPT !.imageUrl = Val(FindResult(found, i - 1)).imageUrl]
        ELSE pages[i]]

ActivePages == Val(home.active).pages

\* onClick of a library card; the library is rendered while no book is open
SelectBook ==
    /\ home.on /\ ~Present(home.active)
    /\ \E id \in BookIds :
          home' = [home EXCEPT !.active = Some([id |-> id, pages |-> home.books[id]]),
                               !.activeId = Some(id), !.pageIdx = 0]
    /\ UNCHANGED serverVars

\* onClick of Back to Library
BackToLibrary ==
    /\ home.on /\ Present(home.active)
    /\ home' = [home EXCEPT !.active = Null, !.activeId = Null]
    /\ UNCHANGED serverVars

\* the Previous and Next buttons: disabled at the ends, Math.max / Math.min
PageButton ==
    /\ home.on /\ Present(home.active)
    /\ \/ /\ home.pageIdx # 0
          /\ home' = [home EXCEPT !.pageIdx = IF @ - 1 > 0 THEN @ - 1 ELSE 0]
       \/ /\ home.pageIdx # Len(ActivePages) - 1
          /\ home' = [home EXCEPT !.pageIdx = IF Len(ActivePages) - 1 < @ + 1
                                               THEN Len(ActivePages) - 1 ELSE @ + 1]
    /\ UNCHANGED serverVars

\* onTouchEnd and handleKeyPress: a swipe or an arrow key
SwipeOrKey ==
    /\ home.on /\ Present(home.active)
    /\ \/ /\ home.pageIdx < Len(ActivePages) - 1
          /\ home' = [home EXCEPT !.pageIdx = @ + 1]
       \/ /\ home.pageIdx > 0
          /\ home' = [home EXCEPT !.pageIdx = @ - 1]
    /\ UNCHANGED serverVars

\* illustrateCurrentPage up to its fetch; the button is disabled while one runs
IllustrateCurrentPage ==
    /\ home.on /\ ~home.isIllustrating /\ home.requests < MaxRequests
    /\ Present(home.active)
    /\ home.pageIdx < Len(ActivePages)
    /\ TruthyStr(ActivePages[home.pageIdx + 1].prompt)
    /\ home' = [home EXCEPT !.isIllustrating = TRUE, !.requests = @ + 1,
                            !.single = [IdleTask EXCEPT !.pc = "fetch",
                                                        !.active = Val(home.active),
                                                        !.pageIdx = home.pageIdx]]
    /\ UNCHANGED serverVars

\* the route answered: not ok (the catch, the finally), or an imageUrl
IllustrateFetched ==
    /\ home.on /\ home.single.pc = "fetch"
    /\ \/ home' = [home EXCEPT !.single = IdleTask, !.isIllustrating = FALSE]
       \/ home' = [home EXCEPT
                      !.single.pc = "update",
                      !.single.updatedPages =
                          WithImageAt(home.single.active.pages, home.single.pageIdx,
                                      SingleImageUrl)]
    /\ UNCHANGED serverVars

\* supabase.from('books').update({pages: updatedPages}).eq('id', active.id): the
\* row is written, or the update answers an error (the catch, the finally)
IllustrateUpdated ==
    /\ home.on /\ home.single.pc = "update"
    /\ \/ home' = [home EXCEPT !.single = IdleTask, !.isIllustrating = FALSE]
       \/ home' = [home EXCEPT !.single.pc = "resume",
                               !.db[home.single.active.id] = home.single.updatedPages]
    /\ UNCHANGED serverVars

\* setBooks, setActive and the finally of illustrateCurrentPage
IllustrateResumed ==
    /\ home.on /\ home.single.pc = "resume"
    /\ home' = [home EXCEPT
                   !.books[home.single.active.id] = home.single.updatedPages,
                   !.active = Some([home.single.active EXCEPT
                                       !.pages = home.single.updatedPages]),
                   !.isIllustrating = FALSE,
                   !.single = IdleTask]
    /\ UNCHANGED serverVars

\* batchIllustrateAllPages up to its fetch; the button is disabled while one runs
BatchIllustrateAllPages ==
    /\ home.on /\ ~home.isBatchIllustrating /\ home.requests < MaxRequests
    /\ Present(home.active)
    /\ home' = [home EXCEPT !.isBatchIllustrating = TRUE, !.requests = @ + 1,
                            !.batch = [IdleTask EXCEPT !.pc = "fetch",
                                                       !.active = Val(home.active)]]
    /\ UNCHANGED serverVars

\* the route answered: not ok, or the results of the pages it was sent
BatchFetched ==
    /\ home.on /\ home.batch.pc = "fetch"
    /\ \/ home' = [home EXCEPT !.batch = IdleTask, !.isBatchIllustrating = FALSE]
       \/ \E envs \in HomeEnvLists(Len(PagesWithPrompts(home.batch.active.pages))) :
             LET data == BatchPOST(BatchBodyOf(home.batch.active), envs)
             IN  home' = [home EXCEPT
                             !.batch.pc = "update",
                             !.batch.results = data.results,
                             !.batch.updatedPages =
                                 WithBatchResults(home.batch.active.pages, data.results)]
    /\ UNCHANGED serverVars

BatchUpdated ==
    /\ home.on /\ home.batch.pc = "update"
    /\ \/ home' = [home EXCEPT !.batch = IdleTask, !.isBatchIllustrating = FALSE]
       \/ home' = [home EXCEPT !.batch.pc = "resume",
                               !.db[home.batch.active.id] = home.batch.updatedPages]
    /\ UNCHANGED serverVars

\* setBooks, setActive and the finally of batchIllustrateAllPages
BatchResumed ==
    /\ home.on /\ home.batch.pc = "resume"
    /\ home' = [home EXCEPT
                   !.books[home.batch.active.id] = home.batch.updatedPages,
                   !.active = Some([home.batch.active EXCEPT
                                       !.pages = home.batch.updatedPages]),
                   !.isBatchIllustrating = FALSE,
                   !.batch = IdleTask]
    /\ UNCHANGED serverVars

NextHome ==
    \/ SelectBook
    \/ BackToLibrary
    \/ PageButton
    \/ SwipeOrKey
    \/ IllustrateCurrentPage
    \/ IllustrateFetched
    \/ IllustrateUpdated
    \/ IllustrateResumed
    \/ BatchIllustrateAllPages
    \/ BatchFetched
    \/ BatchUpdated
    \/ BatchResumed

\* the page once loadBooks has set the books of the table
InitHome ==
    /\ call = IdleCall /\ reply = NoReply
    /\ req = [cred |-> FALSE, body |-> CHOOSE b \in BatchBodies : Len(b.pages) = 0]
    /\ env = <<>> /\ pc = "off" /\ batchIndex = 0 /\ stage = <<>> /\ outcome = <<>>
    /\ results = <<>> /\ response = NoResponse /\ genLog = <<>> /\ pauses = 0
    /\ run = 0 /\ firstRun = [outcome |-> <<>>, response |-> NoResponse]
    /\ inject = [pos |-> 0, mode |-> "none"] /\ overtaken = FALSE
    /\ \E library \in Libraries :
          home = [on |-> TRUE, books |-> library, db |-> library,
                  active |-> Null, activeId |-> Null, pageIdx |-> 0,
                  isIllustrating |-> FALSE, isBatchIllustrating |-> FALSE,
                  single |-> IdleTask, batch |-> IdleTask, requests |-> 0]

SpecHome == InitHome /\ [][NextHome]_vars

----------------------------------------------------------------------------
(* Story generation: POST of the generate route                            *)
(*                                                                         *)
(* c is one request: cred and bodyOk (the credential, the body parsing),   *)
(* data what extractJsonCandidate gave for the model's answer ("throw" the *)
(* text call threw, "invalid" no title or no pages array, "book"), pages   *)
(* the pages of that book, answers per page what generateContent answers   *)
(* generateIllustration and what fetch answers the fallback, save what the *)
(* insert into the books table answers.                                    *)

FallbackKinds == {"throw", "notOk", "ok"}
FallbackImageUrl == PublicUrl(IllustrationFilename(Clock, RandomId))

\* a fallback whose failure is not caught
FallbackRethrows(kind) ==
    [imageUrl |-> IF kind = "ok" THEN Some(FallbackImageUrl) ELSE Null,
     threw |-> kind = "throw"]

\* try { fetch(.../api/illustrate); if (ok) imageUrl = (await json()).imageUrl }
\* catch (fallbackError) { console.error(...) }
Fallback(kind) ==
    [imageUrl |-> IF kind = "ok" THEN Some(FallbackImageUrl) ELSE Null,
     threw |-> FALSE]

\* the callback of data.pages.map: the page it returns and the calls it made
IllustratePage(page, a) ==
    IF TruthyStr(page.prompt)
    THEN LET direct == GenerateIllustration(
                          Val(page.prompt),
                          MakeCall("generateIllustration", TRUE, PlainBody, a.gen,
                                   StoreOk, FsOk, 0)).fx.ret
             fallback == Fallback(a.fallback)
         IN  IF TruthyStr(direct)
             THEN [page |-> [text |-> page.text, prompt |-> page.prompt,
                             imageUrl |-> direct],
                   calls |-> <<"direct">>, threw |-> FALSE]
             ELSE [page |-> [text |-> page.text, prompt |-> page.prompt,
                             imageUrl |-> fallback.imageUrl],
                   calls |-> <<"direct", "fallback">>, threw |-> fallback.threw]
    ELSE [page |-> [text |-> page.text, prompt |-> page.prompt, imageUrl |-> Null],
          calls |-> <<>>, threw |-> FALSE]

GenerateReply(status, error, pages, calls, saved) ==
    [done |-> TRUE, status |-> status, error |-> error, pages |-> pages,
     calls |-> calls, saved |-> saved]

\* POST of the generate route
GeneratePOST(c) ==
    LET illustrated == [i \in 1..Len(c.pages) |-> IllustratePage(c.pages[i], c.answers[i])]
        pagesWithImages == [i \in 1..Len(c.pages) |-> illustrated[i].page]
        calls == [i \in 1..Len(c.pages) |-> illustrated[i].calls]
    IN  IF ~c.cred
        THEN GenerateReply(500, Some("Missing GOOGLE_GENAI_API_KEY"), <<>>, <<>>, FALSE)
        ELSE IF ~c.bodyOk
        THEN GenerateReply(400, Some("Invalid body"), <<>>, <<>>, FALSE)
        ELSE IF c.data = "throw"
        THEN GenerateReply(500, Some("503 Service Unavailable"), <<>>, <<>>, FALSE)
        ELSE IF c.data = "invalid"
        THEN GenerateReply(500, Some("Model response missing required fields"),
                           <<>>, <<>>, FALSE)
        ELSE IF \E i \in 1..Len(c.pages) : illustrated[i].threw
        THEN GenerateReply(500, Some("fetch failed"), <<>>, calls, FALSE)
        ELSE GenerateReply(200, Null, pagesWithImages, calls, c.save = "ok")

\* a page of the model's book and what the outside world answers for it
PageCases ==
    {pc0 \in [prompt : {Null, Some(<<>>), Scene(1)}, gen : PageGens,
              fallback : FallbackKinds] :
        (~TruthyStr(pc0.prompt) \/ pc0.gen = GenOk(RespImage)) =>
            (pc0.gen = GenOk(RespImage) /\ pc0.fallback = "throw")}

CallGenerate ==
    /\ call.fn = "generate" /\ ~reply.done
    /\ reply' = GeneratePOST(call)
    /\ UNCHANGED <<call, req, env, pc, batchIndex, stage, outcome, results, response,
                   genLog, pauses, run, firstRun, inject, overtaken, home>>

InitGenerate ==
    /\ BatchOff /\ reply = NoReply
    /\ \E n \in 0..MaxPages :
          \E cases \in [1..n -> PageCases], save \in {"ok", "error", "throw"},
             early \in {"none", "cred", "body", "throw", "invalid"} :
                /\ early # "none" => save = "ok" /\ n <= 1
                /\ call = [fn |-> "generate", cred |-> early # "cred",
                           bodyOk |-> early # "body",
                           data |-> IF early \in {"throw", "invalid"} THEN early
                                    ELSE "book",
                           pages |-> [i \in 1..n |->
                                        [text |-> <<"t", ToString(i)>>,
                                         prompt |-> cases[i].prompt]],
                           answers |-> [i \in 1..n |->
                                          [gen |-> cases[i].gen,
                                           fallback |-> cases[i].fallback]],
                           save |-> save]

SpecGenerate == InitGenerate /\ [][CallGenerate]_vars

----------------------------------------------------------------------------
(* Batch orchestrator: properties *)

Answered == pc = "done" /\ response.status = 200
AllEntries == response.results \o response.failedResults

\* C1: for any accepted request of N pages and any accepted batch size, the
\* answer holds exactly N per-page results (results and failedResults together),
\* their pageIndex values are pairwise distinct and are exactly 0..N-1, and
\* summary.successful + summary.failed = summary.totalPages = N.
C1_OneResultPerPage ==
    Answered =>
        /\ Len(AllEntries) = NumPages
        /\ \A i, j \in 1..Len(AllEntries) :
              i # j => AllEntries[i].pageIndex2 # AllEntries[j].pageIndex2
        /\ {AllEntries[i].pageIndex2 : i \in 1..Len(AllEntries)}
              = {2 * n : n \in 0..(NumPages - 1)}
        /\ response.summary.successful + response.summary.failed
              = response.summary.totalPages
        /\ response.summary.totalPages = NumPages

\* the entries of a response that are not about pageIndex k2
Others(list, k2) == SelectSeq(list, LAMBDA r : r.pageIndex2 # k2)

\* C2: batch isolation.  Of two runs of the same request that differ only in that
\* page k's pipeline fails in the second (the generation call throws, the
\* extraction finds no image, or the persistence returns null), the second is not
\* aborted and every other page has the same outcome in both: the same result
\* (success, imageUrl, error), listed at the same place of the answer.
C2_Isolation ==
    (run = 2 /\ pc = "done") =>
        /\ response.status = 200
        /\ \A j \in Positions \ {inject.pos} :
              /\ Present(outcome[j])
              /\ outcome[j] = firstRun.outcome[j]
        /\ LET k2 == Val(firstRun.outcome[inject.pos]).pageIndex2
           IN  /\ Others(response.results, k2) = Others(firstRun.response.results, k2)
               /\ Others(response.failedResults, k2)
                     = Others(firstRun.response.failedResults, k2)

\* C2 witness: a second run in which the injected page failed and was listed as
\* failed, beside another page that succeeded and one that failed on its own
C2_Witness ==
    /\ run = 2 /\ pc = "done" /\ NumPages = 3
    /\ ~Val(outcome[inject.pos]).success
    /\ Val(firstRun.outcome[inject.pos]).success
    /\ \E j \in Positions \ {inject.pos} : Val(outcome[j]).success
    /\ \E j \in Positions \ {inject.pos} : ~Val(outcome[j]).success
    /\ Len(response.failedResults) = 2

\* C3: the result made from a page's prompt carries the pageIndex the request
\* supplied for that page, also when the supplied values are not 0..N-1 in list
\* order.  (Stated for whole-number batch sizes, to keep it apart from C1.)
C3_SuppliedPageIndexKept ==
    (Answered /\ Data.batchSize2 % 2 = 0) =>
        \A pos \in Positions :
            Val(outcome[pos]).pageIndex2 = req.body.pages[pos].pageIndex2

----------------------------------------------------------------------------
(* Persistence sink: properties *)

Uploaded == call.fn = "uploadImageToStorage" /\ reply.done

\* C4: whenever the blob upload fails for any reason (the storage client returns
\* an error, or the bucket list/create call or the upload call throws),
\* uploadImageToStorage attempts the local write; if that write succeeds it
\* returns '/images/<filename>'; it returns null only when the local fallback
\* was attempted and also failed.
C4_FallbackOnAnyFailure ==
    (Uploaded /\ reply.up.blob = {}) =>
        /\ HasToken(reply.up.calls, "mkdir")
        /\ (call.store.mkdir = "ok" /\ call.store.write = "ok")
              => reply.up.ret = Some(LocalUrl(UploadFilename(call)))
        /\ reply.up.ret = Null
              => (HasToken(reply.up.calls, "mkdir") /\ reply.up.file = {})

\* C5: uploadImageToStorage never throws: whatever bucket listing, bucket
\* creation, upload, directory creation and file write answer, it returns a URL
\* (the public one or the local one) or null, and it returns null when neither
\* the blob upload nor the local write stored the image.
C5_NeverThrows ==
    Uploaded =>
        /\ ~reply.up.threw
        /\ reply.up.ret \in {Null, Some(PublicUrl(UploadFilename(call))),
                             Some(LocalUrl(UploadFilename(call)))}
        /\ (reply.up.blob = {} /\ reply.up.file = {}) => reply.up.ret = Null

\* C5 witness: the upload answered an error and the local write threw
C5_Witness ==
    /\ Uploaded
    /\ call.store.upload = "error" /\ call.store.write = "throw"
    /\ HasToken(reply.up.calls, "writeFile")
    /\ reply.up.ret = Null

----------------------------------------------------------------------------
(* Response extractor: properties *)

Extractors ==
    {"illustrate", "illustrateFs", "advanced", "generatePageIllustration",
     "generateIllustration"}
Extracted == call.fn \in Extractors /\ reply.done

\* the parts the extractor of the call was given
CallParts ==
    IF call.gen.kind = "ok" /\ Present(PartsOf(call.gen.resp))
    THEN Val(PartsOf(call.gen.resp)) ELSE <<>>

InlineMatch(part) == Present(part.inlineData) /\ TruthyStr(ImageDataOf(part))
UrlMatch(part) ==
    /\ TruthyStr(part.text) /\ HasToken(Val(part.text), "data:image")
    /\ TruthyStr(SplitComma1(Val(part.text)))
InlineBytes(part) == BufferFromBase64(Val(ImageDataOf(part)))
UrlBytes(part) == BufferFromBase64(Val(SplitComma1(Val(part.text))))

FirstOf(S) == CHOOSE j \in S : \A k \in S : j <= k
InlineParts == {j \in 1..Len(CallParts) : InlineMatch(CallParts[j])}
EitherParts ==
    {j \in 1..Len(CallParts) : InlineMatch(CallParts[j]) \/ UrlMatch(CallParts[j])}

\* the bytes the extractor handed to the persistence sink or to writeFile
StoredBytes == {w.bytes : w \in {reply.fx.writes[j] : j \in 1..Len(reply.fx.writes)}}
                \cup {u.bytes : u \in {reply.fx.uploads[j] : j \in 1..Len(reply.fx.uploads)}}

OnlyEmptyInlineData ==
    /\ call.gen.kind = "ok"
    /\ \A j \in 1..Len(CallParts) :
          /\ Present(CallParts[j].inlineData) /\ ~InlineMatch(CallParts[j])
          /\ CallParts[j].text = Null

\* C7: for a response with no candidates, no parts, or parts whose inline data
\* is present but empty or missing, every extractor (with storage and the
\* filesystem in order) ends in the no-image outcome and raises no exception:
\* nothing is stored, null is returned, and the illustrate and advanced routes
\* answer 502 'No image returned from model'.
C7_NoImageIsNotAnError ==
    (Extracted /\ OnlyEmptyInlineData /\ call.store = StoreOk /\ call.fs = FsOk) =>
        /\ reply.fx.err = Null /\ reply.fx.ret = Null /\ StoredBytes = {}
        /\ call.fn \in {"illustrate", "illustrateFs", "advanced"} =>
              /\ reply.status = 502
              /\ reply.error = Some("No image returned from model")
        /\ call.fn = "generatePageIllustration" =>
              /\ ~reply.result.success
              /\ reply.result.error = Some("No image generated")

----------------------------------------------------------------------------
(* Prompt composer: properties *)

\* a handler that composed a prompt and sent it to the model
Composed == call.fn \in Extractors /\ reply.done /\ Len(reply.gen) > 0
SentPrompts == {reply.gen[j] : j \in 1..Len(reply.gen)}
ScenePrompt == Val(call.body.prompt)

\* C8: with a (non-empty) characterDescription in the request, for either value
\* of consistencyMode and in each of the illustrate, advanced-illustrate and
\* batch routes, every prompt sent holds the description verbatim and does not
\* hold the generic consistency clause.
C8_DescriptionAlwaysEmbedded ==
    (/\ Composed
     /\ call.fn \in {"illustrate", "advanced", "generatePageIllustration"}
     /\ TruthyStr(call.body.characterDescription)) =>
        \A p \in SentPrompts :
            /\ Contains(p, Val(call.body.characterDescription))
            /\ ~HasToken(p, GenericConsistency)

\* C9: with no characterDescription in the request, a prompt sent with
\* consistencyMode true holds the generic consistency clause and no description
\* clause, and a prompt sent with consistencyMode false holds neither, in every
\* route that composes a prompt.
C9_GenericClauseWithoutDescription ==
    (/\ Composed
     /\ call.fn \in {"illustrate", "illustrateFs", "advanced", "generatePageIllustration"}
     /\ call.body.characterDescription = Null) =>
        \A p \in SentPrompts :
            /\ ~HasToken(p, CharacterPrefix)
            /\ call.body.consistencyMode = Some(TRUE) => HasToken(p, GenericConsistency)
            /\ call.body.consistencyMode = Some(FALSE) => ~HasToken(p, GenericConsistency)

\* advanced-illustrate took the batchGenerate path
BatchGenerated ==
    /\ call.fn = "advanced" /\ call.body.batchGenerate = Some(TRUE)
    /\ Present(call.body.pageCount) /\ Val(call.body.pageCount) > 1

\* C10 as stated: every prompt sent to the model ends with the scene prompt, in
\* the single illustrate, advanced single, advanced batchGenerate and batch paths.
C10_EndsWithScenePrompt ==
    (Composed /\ call.fn \in {"illustrate", "advanced", "generatePageIllustration"}) =>
        \A p \in SentPrompts : EndsWith(p, ScenePrompt)

\* C10 amended: in the single illustrate, advanced single and batch-illustrate
\* paths the prompt sent ends with the lighting clause followed by the scene
\* prompt verbatim; in the batchGenerate path of advanced-illustrate the i-th
\* prompt sent is that same text followed by ' This is page i of pageCount. ',
\* so there the scene prompt is the last but one clause.
C10_ScenePromptLastButPageNote ==
    (Composed /\ call.fn \in {"illustrate", "illustrateFs", "advanced",
                              "generatePageIllustration"}) =>
        \A j \in 1..Len(reply.gen) :
            IF BatchGenerated
            THEN EndsWith(reply.gen[j],
                          <<Lighting>> \o ScenePrompt
                              \o <<" This is page ", ToString(j), " of ",
                                   ToString(Val(call.body.pageCount)), ". ">>)
            ELSE EndsWith(reply.gen[j], <<Lighting>> \o ScenePrompt)

\* C10 witness: the batchGenerate path sent its three prompts, the last ending
\* with the page note and not with the scene prompt
C10_Witness ==
    /\ Composed /\ BatchGenerated
    /\ Len(reply.gen) = 3
    /\ EndsWith(reply.gen[3], ScenePrompt \o <<" This is page ", "3", " of ", "3", ". ">>)
    /\ ~EndsWith(reply.gen[3], ScenePrompt)

\* the sentence the style stands for
StyleSentence ==
    [st \in Styles |->
        CASE st = "realistic" ->
               "Style: photorealistic, warm and inviting, suitable for ages 3-12. "
          [] st = "cartoon" ->
               "Style: colorful cartoon illustration, friendly and engaging, suitable for ages 3-12. "
          [] st = "watercolor" ->
               "Style: soft watercolor painting, artistic and dreamy, suitable for ages 3-12. "
          [] OTHER ->
               "Style: detailed pencil sketch with light coloring, educational and clear, suitable for ages 3-12. "]

\* the style the request asks for, realistic when it names none
RequestedStyle == IF Present(call.body.style) THEN Val(call.body.style) ELSE "realistic"

\* C11: in the illustrate, advanced-illustrate and batch routes every prompt
\* sent holds exactly once the style sentence of the requested style and none
\* of the other three sentences; a request that names no style gets the
\* realistic sentence.
C11_StyleSentence ==
    (Composed /\ call.fn \in {"illustrate", "illustrateFs", "advanced",
                              "generatePageIllustration"}) =>
        \A p \in SentPrompts :
            /\ Cardinality({i \in 1..Len(p) : p[i] = StyleSentence[RequestedStyle]}) = 1
            /\ \A st \in Styles \ {RequestedStyle} : ~HasToken(p, StyleSentence[st])

\* C11 witness: a prompt was sent for a request asking for sketch, and it holds
\* the sketch sentence
C11_Witness ==
    /\ Composed /\ call.fn \in {"illustrate", "advanced", "generatePageIllustration"}
    /\ call.body.style = Some("sketch")
    /\ \A p \in SentPrompts : HasToken(p, StyleSentence["sketch"])

----------------------------------------------------------------------------
(* Batch orchestrator: ordering, sequencing, results *)

\* the settled results by input position
InInputOrder == [pos \in Positions |-> Val(outcome[pos])]

\* C12: the results list and the failedResults list of the answer hold their
\* entries in ascending input position, whatever the order in which the
\* invocations of a chunk settled.
C12_InputOrder ==
    Answered =>
        /\ response.results = SelectSeq(InInputOrder, IsSuccess)
        /\ response.failedResults = SelectSeq(InInputOrder, IsFailure)

\* C12 witness: an invocation settled before one ahead of it in its chunk, and
\* a list of the answer holds two entries or more
C12_Witness ==
    /\ Answered /\ overtaken
    /\ \/ Len(response.results) >= 2
       \/ Len(response.failedResults) >= 2

----------------------------------------------------------------------------
(* Request gate: properties *)

Routed == call.fn \in {"illustrate", "illustrateFs", "advanced"} /\ reply.done

\* the body of the single-image request fits the route's schema
SingleBodyFits ==
    /\ Present(call.body.prompt) /\ Len(Val(call.body.prompt)) >= 5
    /\ call.body.style \in {Null} \cup {Some(st) : st \in Styles}
    /\ call.fn = "advanced" =>
          (Present(call.body.pageCount) =>
              Val(call.body.pageCount) >= 1 /\ Val(call.body.pageCount) <= 5)

\* the body of the batch request fits the schema of batch-illustrate
BatchBodyFits ==
    /\ Present(req.body.bookId)
    /\ req.body.style \in {Null} \cup {Some(st) : st \in Styles}
    /\ Present(req.body.batchSize2) =>
          Val(req.body.batchSize2) >= 2 /\ Val(req.body.batchSize2) <= 10

\* the single-image handler made no generation call and stored nothing
NoCallsMade ==
    /\ reply.gen = <<>>
    /\ reply.fx.uploads = <<>> /\ reply.fx.mkdirs = 0 /\ reply.fx.writes = <<>>
    /\ reply.fx.files = {} /\ reply.fx.blobs = {}

\* the batch handler started no invocation
NoInvocationStarted == genLog = <<>> /\ \A pos \in Positions : stage[pos] = "pending"

----------------------------------------------------------------------------
(* Retention sweep: properties *)

Swept == call.fn = "cleanup" /\ reply.done

\* the files of the directory named illustration_<timestamp>_<id>.png
Stamped == {f \in {call.files[i] : i \in 1..Len(call.files)} :
                /\ Len(f) = 6 /\ f[1] = "illustration" /\ f[6] = ".png"
                /\ \E k \in Stamps : f[3] = ToString(k)}
StampIn(f) == CHOOSE k \in Stamps : f[3] = ToString(k)
\* how many of those files are newer than f
NewerThan(f) == Cardinality({g \in Stamped : StampIn(g) > StampIn(f)})

\* the sweep found only files with distinct timestamps and could delete every one
SweepAsGiven ==
    /\ call.readdir = "ok" /\ call.unlinkFails = {}
    /\ \A i \in 1..Len(call.files) :
          IsImageFile(call.files[i]) => call.files[i] \in Stamped
    /\ \A f, g \in Stamped : f # g => StampIn(f) # StampIn(g)

\* C14: with n files named illustration_<timestamp>_<id>.png of distinct
\* timestamps in the directory and every deletion succeeding, the sweep deletes
\* exactly the n - 50 files of the smallest timestamps (none when n <= 50),
\* leaves the 50 newest and every other file in place, and reports
\* deleted = max(0, n - 50) and kept = min(n, 50).
C14_KeepsTheNewestFifty ==
    (Swept /\ SweepAsGiven) =>
        LET n == Cardinality(Stamped)
            all == {call.files[i] : i \in 1..Len(call.files)}
            oldest == {f \in Stamped : NewerThan(f) >= 50}
        IN  /\ reply.status = 200
            /\ reply.deleted = (IF n > 50 THEN n - 50 ELSE 0)
            /\ reply.kept = (IF n < 50 THEN n ELSE 50)
            /\ {reply.unlinks[i] : i \in 1..Len(reply.unlinks)} = oldest
            /\ Len(reply.unlinks) = Cardinality(oldest)
            /\ reply.left = all \ oldest

\* C14 witness: of 52 files, listed newest first, the two oldest were deleted and
\* 50 kept
C14_Witness ==
    /\ Swept /\ SweepAsGiven
    /\ Cardinality(Stamped) = 52
    /\ StampIn(call.files[Len(call.files)]) = 1
    /\ reply.deleted = 2 /\ reply.kept = 50
    /\ StampedFile(1) \notin reply.left /\ StampedFile(2) \notin reply.left
    /\ StampedFile(3) \in reply.left

----------------------------------------------------------------------------
(* Image read route: properties *)

Served == call.fn = "image" /\ reply.done

\* where the requested path leads, segment by segment
Requested == NormalizeFrom(Cwd \o <<<<"public">>, <<"images">>>> \o call.path, 1, <<>>)
\* it leads into public/images (or is that directory)
InImagesDirectory ==
    /\ Len(Requested) >= 3
    /\ SubSeq(Requested, 1, 3) = Cwd \o <<<<"public">>, <<"images">>>>

\* C15: whatever the path segments ('..' segments and names of sibling
\* directories beginning with 'images' included), a request whose resolved path
\* lies outside public/images is answered 403 and no file is read.
C15_NoReadOutsideImages ==
    (Served /\ ~InImagesDirectory) =>
        /\ reply.status = 403
        /\ reply.read = Null

----------------------------------------------------------------------------
(* Batch orchestrator: the answer *)

\* POST has answered a request that had the credential and a valid body
AnsweredAccepted == pc = "done" /\ req.cred /\ BatchBodyFits

\* C16: a request with the credential and a valid body is answered 200 with
\* results, failedResults and summary, however many pages failed and for
\* whatever cause, and every page that failed is listed in failedResults under
\* its own pageIndex, the one the request gave it.
C16_FailedPagesListedForRetry ==
    AnsweredAccepted =>
        /\ response.status = 200 /\ response.error = Null
        /\ response.summary.failed = Len(response.failedResults)
        /\ \A pos \in Positions :
              ~Val(outcome[pos]).success =>
                  \E i \in 1..Len(response.failedResults) :
                      /\ response.failedResults[i].pageIndex2
                            = req.body.pages[pos].pageIndex2
                      /\ Present(response.failedResults[i].error)

\* ceil(N / B) for the request in hand
ChunkCount ==
    LET b2 == IF Present(req.body.batchSize2) THEN Val(req.body.batchSize2) ELSE 6
    IN  (2 * NumPages + b2 - 1) \div b2
Started(pos) == stage[pos] # "pending"

\* C17: no invocation of a chunk has started unless every invocation of every
\* chunk before it has settled and one pause per chunk before it has elapsed;
\* while a chunk runs exactly that many pauses have been taken, and by the
\* answer ceil(N/B) - 1 pauses were taken (none for an empty page list): one
\* between consecutive chunks, none after the last.
C17_ChunksInSequence ==
    (req.cred /\ BatchBodyFits /\ pc # "off") =>
        /\ \A b \in 0..(ChunkCount - 1) : \A p \in InChunk(b) :
              Started(p) =>
                  /\ \A b0 \in 0..(b - 1) : \A q \in InChunk(b0) : Present(outcome[q])
                  /\ pauses >= b
        /\ pc = "await" => pauses = batchIndex
        /\ pauses <= (IF ChunkCount > 0 THEN ChunkCount - 1 ELSE 0)
        /\ pc = "done" => pauses = (IF ChunkCount > 0 THEN ChunkCount - 1 ELSE 0)

\* C17 witness: three chunks were run, and two pauses taken
C17_Witness ==
    /\ Answered /\ ChunkCount = 3 /\ NumPages = 3
    /\ pauses = 2
    /\ \A p \in Positions : Present(outcome[p])

\* the invocations that have started and not settled
InFlight == {p \in Positions : stage[p] \in {"generating", "persisting"}}

\* C18: for every batch size B the schema accepts (any number from 1 to 5, 3
\* when the request names none) and every page list, at most B invocations of
\* the request are in flight at any moment.
C18_AtMostBInFlight ==
    (req.cred /\ BatchBodyFits /\ pc # "off") =>
        2 * Cardinality(InFlight)
            <= (IF Present(req.body.batchSize2) THEN Val(req.body.batchSize2) ELSE 6)

\* r is a result in one of the two terminal states
Terminal(r) ==
    \/ r.success /\ TruthyStr(r.imageUrl) /\ r.error = Null
    \/ ~r.success /\ Present(r.error) /\ Val(r.error) # "" /\ r.imageUrl = Null

\* every result there is belongs to an invocation that has finished, and is terminal
ResultsAreTerminal ==
    /\ \A pos \in Positions :
          /\ Present(outcome[pos]) <=> stage[pos] \in {"succeeded", "failed"}
          /\ Present(outcome[pos]) =>
                /\ Terminal(Val(outcome[pos]))
                /\ Val(outcome[pos]).success <=> stage[pos] = "succeeded"
    /\ \A i \in 1..Len(results) :
          \E pos \in Positions : Present(outcome[pos]) /\ results[i] = Val(outcome[pos])
    /\ \A i \in 1..Len(AllEntries) :
          \E pos \in Positions : Present(outcome[pos]) /\ AllEntries[i] = Val(outcome[pos])

\* within one request a result, once there, stays as it is
ResultsKept ==
    run' = run =>
        /\ \A pos \in Positions : Present(outcome[pos]) => outcome'[pos] = outcome[pos]
        /\ Len(results') >= Len(results)
        /\ SubSeq(results', 1, Len(results)) = results

IssuedFor(pos) == {i \in 1..Len(genLog) : genLog[i].pos = pos}

\* a single illustrate request, with the credential and a valid body, was answered
IllustrateAnswered ==
    /\ call.fn \in {"illustrate", "illustrateFs"} /\ reply.done
    /\ call.cred /\ SingleBodyFits

\* C20: no automatic retry.  In one batch request every page has exactly one
\* generation call once its invocation has started, none before, and every page
\* has had its one call when the request is answered; one request to the single
\* illustrate route issues exactly one generation call, whatever the outcome
\* (no image in the response, persistence failed, the call threw).
C20_OneGenerationCall ==
    /\ (req.cred /\ BatchBodyFits /\ pc # "off") =>
          /\ \A pos \in Positions :
                Cardinality(IssuedFor(pos)) = (IF stage[pos] = "pending" THEN 0 ELSE 1)
          /\ pc = "done" => Len(genLog) = NumPages
    /\ IllustrateAnswered => Len(reply.gen) = 1

\* C20 witness: a batch request is answered with one page failed for want of an
\* image, one page failed in the generation call and one page whose upload
\* failed, each after one generation call
C20_Witness ==
    /\ Answered /\ NumPages = 3 /\ Len(genLog) = 3
    /\ \E pos \in Positions : env[pos].gen = GenOk(RespNoImage) /\ ~Val(outcome[pos]).success
    /\ \E pos \in Positions : env[pos].gen = GenThrow /\ ~Val(outcome[pos]).success
    /\ \E pos \in Positions : env[pos].gen = GenOk(RespImage) /\ env[pos].store = StoreFail

\* the single illustrate route answered a request whose generation call threw
C20_SingleThrown ==
    IllustrateAnswered /\ call.gen = GenThrow /\ reply.status = 500

\* C21: no generation call is ever issued with an empty scene prompt; the batch
\* route rejects a request in which a page's prompt is the empty string before
\* any call to the model.
C21_NoCallWithEmptyPrompt ==
    \A i \in 1..Len(genLog) : req.body.pages[genLog[i].pos].prompt # <<>>

\* the image files the pipeline's local fallback wrote, under any of its prefixes
FallbackFiles(files) ==
    {f \in files :
        /\ Len(f) >= 3 /\ f[Len(f)] = ".png"
        /\ \/ f[1] = "illustration" /\ f[2] = "_"
           \/ f[1] \in {"batch", "advanced"} /\ f[2] = "_" /\ f[3] = "illustration"}

\* C22: after a sweep in which all deletions succeed, at most 50 image files
\* written by the local fallback remain in the images directory, whichever
\* pipeline path wrote them (illustration_, batch_illustration_ or
\* advanced_illustration_).
C22_FallbackFilesSwept ==
    (Swept /\ reply.status = 200 /\ call.unlinkFails = {}) =>
        Cardinality(FallbackFiles(reply.left)) <= RetentionLimit

\* C23: the sweep's report matches what happened on disk: deleted is the number
\* of files the sweep removed and kept the number of swept-category files that
\* remain, also when the deletion of an individual file fails.
C23_ReportMatchesDisk ==
    (Swept /\ reply.status = 200) =>
        LET all == {call.files[i] : i \in 1..Len(call.files)}
        IN  /\ reply.deleted = Cardinality(all \ reply.left)
            /\ reply.kept = Cardinality({f \in reply.left : IsImageFile(f)})

\* the chunk the page at position pos is processed in, and the calls of
\* uploadImageToStorage its invocation makes
ChunkIndexOf(pos) == CHOOSE b \in 0..(ChunkCount - 1) : pos \in InChunk(b)
UploadsOf(pos) == Invocation(ChunkIndexOf(pos), pos).fx.uploads
Persisted == {pos \in Positions : Started(pos) /\ UploadsOf(pos) # <<>>}

\* C24: within one batch request no two page invocations persist their image
\* under the same filename, even when they run in the same millisecond and draw
\* the same random suffix.
C24_DistinctFilenames ==
    (req.cred /\ BatchBodyFits /\ pc # "off") =>
        \A p, q \in Persisted :
            (p # q /\ env[p].ts = env[q].ts /\ env[p].rnd = env[q].rnd) =>
                UploadsOf(p)[1].filename # UploadsOf(q)[1].filename

\* C24 witness: two pages of one chunk were written by the local fallback in the
\* same millisecond with the same random suffix, under two names
C24_Witness ==
    /\ Answered
    /\ \E p, q \in Persisted :
          /\ p # q /\ ChunkIndexOf(p) = ChunkIndexOf(q)
          /\ env[p].ts = env[q].ts /\ env[p].rnd = env[q].rnd
          /\ env[p].store = StoreLocal /\ env[q].store = StoreLocal
          /\ Val(outcome[p]).success /\ Val(outcome[q]).success
          /\ Val(outcome[p]).imageUrl # Val(outcome[q]).imageUrl

----------------------------------------------------------------------------
(* Home page: properties *)

\* writing the pages of task over the pages before leaves in place every imageUrl
\* that was written since the task captured its book and that the task has no
\* image of its own for
KeepsWhatOthersWrote(task, before, after) ==
    \A i \in 1..Len(before) :
        (/\ before[i].imageUrl # task.active.pages[i].imageUrl
         /\ task.updatedPages[i].imageUrl = task.active.pages[i].imageUrl)
            => after[i].imageUrl = before[i].imageUrl

\* the step in which task writes the row of its book, and the one in which it
\* sets books and active
WritesRow(before, after) == before.pc = "update" /\ after.pc = "resume"
SetsState(before, after) == before.pc = "resume" /\ after.pc = "idle"

NoLostUpdate ==
    home.on =>
        /\ (WritesRow(home.batch, home'.batch) /\ home.batch.results # <<>>) =>
              KeepsWhatOthersWrote(home.batch, home.db[home.batch.active.id],
                                   home'.db[home.batch.active.id])
        /\ WritesRow(home.single, home'.single) =>
              KeepsWhatOthersWrote(home.single, home.db[home.single.active.id],
                                   home'.db[home.single.active.id])
        /\ (SetsState(home.batch, home'.batch) /\ home.batch.results # <<>>) =>
              KeepsWhatOthersWrote(home.batch, home.books[home.batch.active.id],
                                   home'.books[home.batch.active.id])
        /\ SetsState(home.single, home'.single) =>
              KeepsWhatOthersWrote(home.single, home.books[home.single.active.id],
                                   home'.books[home.single.active.id])

\* C25: when illustrateCurrentPage and batchIllustrateAllPages of one book are in
\* flight at the same time and both succeed, neither completion overwrites the
\* imageUrl the other wrote (in the row of the table and in books) with page
\* data captured before the other finished.
C25_NoLostUpdate == [][NoLostUpdate]_vars

\* C26: after any interleaving of page navigation, closing the book, opening
\* another book and completion of in-flight illustrate or batch-illustrate
\* requests, whenever a book with at least one page is active, pageIdx is a valid
\* index of that book's pages (0 <= pageIdx < active.pages.length).
C26_PageIdxValid ==
    (home.on /\ Present(home.active) /\ Len(ActivePages) >= 1) =>
        home.pageIdx >= 0 /\ home.pageIdx < Len(ActivePages)

\* C27: after batchIllustrateAllPages on any book, one with pages without a
\* prompt included, every page whose imageUrl is changed receives the image that
\* was generated from that page's prompt, and every page for which no image was
\* generated keeps its previous imageUrl.
C27_ImageOfItsOwnPrompt ==
    (home.on /\ home.batch.pc \in {"update", "resume"}) =>
        \A i \in 1..Len(home.batch.active.pages) :
            home.batch.updatedPages[i].imageUrl # home.batch.active.pages[i].imageUrl =>
                \E j \in 1..Len(home.batch.results) :
                    /\ home.batch.results[j].imageUrl = home.batch.updatedPages[i].imageUrl
                    /\ home.batch.results[j].prompt = home.batch.active.pages[i].prompt

\* C28: for every request the endpoint accepts, a request with an empty pages
\* list included, the summary's successRate is a percentage between 0 and 100
\* and equals round(100 * successful / totalPages); for the empty list no
\* generation call is made.
C28_SuccessRateIsAPercentage ==
    Answered =>
        /\ Present(response.summary.successRate)
        /\ Val(response.summary.successRate) \in 0..100
        /\ \A r \in 0..100 :
              (2 * NumPages * r <= 200 * response.summary.successful + NumPages
                /\ 200 * response.summary.successful + NumPages < 2 * NumPages * (r + 1))
                  => Val(response.summary.successRate) = r
        /\ NumPages = 0 => genLog = <<>>

----------------------------------------------------------------------------
(* Batch orchestrator: termination *)

\* what the invocation of the page at position pos has been through
PassedExtracting(pos) ==
    stage[pos] \in {"persisting", "succeeded", "failed"} /\ env[pos].gen.kind = "ok"
PassedPersisting(pos) ==
    stage[pos] \in {"succeeded", "failed"} /\ UploadsOf(pos) # <<>>
AllTerminal == \A pos \in Positions : stage[pos] \in {"succeeded", "failed"}

\* the moves of an invocation: it leaves generating for persisting when the
\* response held an image and else fails, and leaves persisting for its result
StageMoves ==
    {<<"pending", "generating">>, <<"generating", "persisting">>,
     <<"generating", "failed">>, <<"persisting", "succeeded">>,
     <<"persisting", "failed">>}
StagesInOrder ==
    (pc # "off" /\ run' = run) =>
        \A pos \in Positions :
            stage'[pos] # stage[pos] => <<stage[pos], stage'[pos]>> \in StageMoves

\* the request is answered with every page terminal; a page that succeeded went
\* through extraction and persistence, a page that failed left at the stage that
\* failed
AnsweredAllTerminal ==
    /\ Answered /\ AllTerminal
    /\ \A pos \in Positions :
          /\ stage[pos] = "succeeded" => PassedExtracting(pos) /\ PassedPersisting(pos)
          /\ stage[pos] = "failed" =>
                \/ env[pos].gen.kind = "throw" /\ ~PassedExtracting(pos) /\ ~PassedPersisting(pos)
                \/ PassedExtracting(pos) /\ ~PassedPersisting(pos)
                       /\ Val(outcome[pos]).error = Some("No image generated")
                \/ PassedExtracting(pos) /\ PassedPersisting(pos)

\* C29: every call returning or failing in the end, every accepted batch request
\* eventually responds, and at that point every input page has reached a
\* terminal state (succeeded or failed) after passing through generating,
\* extracting and persisting in that order.
C29_EveryPageThroughAllStages ==
    (Answered /\ AllTerminal) =>
        \A pos \in Positions : PassedExtracting(pos) /\ PassedPersisting(pos)

\* C29 as the code has it: every call returning or failing in the end, every
\* accepted batch request eventually responds with every input page terminal; an
\* invocation moves pending, generating, (extracting,) persisting, terminal in
\* that order, a page that succeeded having passed all of them and a page that
\* failed having left at the stage that failed: generation (the call threw),
\* extraction (no image in the response) or persistence.
C29_TerminatesStagesInOrder ==
    /\ (req.cred /\ BatchBodyFits /\ pc = "recv") ~> AnsweredAllTerminal
    /\ [][StagesInOrder]_vars

\* C29 witness: a request is answered after a pause with one page succeeded and
\* one failed for want of an image
C29_Witness ==
    /\ AnsweredAllTerminal /\ pauses > 0
    /\ \E pos \in Positions : stage[pos] = "succeeded" /\ PassedPersisting(pos)
    /\ \E pos \in Positions : stage[pos] = "failed" /\ PassedExtracting(pos)
                                 /\ ~PassedPersisting(pos)

----------------------------------------------------------------------------
(* Story generation: properties *)

\* the generate route got a book from the model and went on to illustrate it
Illustrating ==
    /\ call.fn = "generate" /\ reply.done
    /\ call.cred /\ call.bodyOk /\ call.data = "book"

\* generateIllustration of page i returned no image
DirectFailed(i) == call.answers[i].gen # GenOk(RespImage)

\* C30: illustration failures never fail the request: whatever pages fail both
\* the direct generation and the fallback, the response holds the book with
\* exactly the model's pages in their order and with their text; the fallback is
\* called for a page only after its direct generation returned no image, and a
\* page without a prompt is returned unchanged with no generation call.
C30_IllustrationFailuresTolerated ==
    Illustrating =>
        /\ reply.status = 200
        /\ Len(reply.pages) = Len(call.pages)
        /\ \A i \in 1..Len(call.pages) :
              /\ reply.pages[i].text = call.pages[i].text
              /\ reply.pages[i].prompt = call.pages[i].prompt
              /\ ~TruthyStr(call.pages[i].prompt) =>
                    reply.calls[i] = <<>> /\ reply.pages[i].imageUrl = Null
              /\ TruthyStr(call.pages[i].prompt) =>
                    /\ reply.calls[i] \in {<<"direct">>, <<"direct", "fallback">>}
                    /\ reply.calls[i] = <<"direct", "fallback">> <=> DirectFailed(i)
                    /\ (DirectFailed(i) /\ call.answers[i].fallback # "ok") =>
                          reply.pages[i].imageUrl = Null

\* C30 witness: of three pages one failed the direct generation and the fallback
\* (the fetch threw), one got its image from the fallback and one had no prompt
C30_Witness ==
    /\ Illustrating /\ reply.status = 200 /\ Len(reply.pages) = 3
    /\ \E i \in 1..3 : DirectFailed(i) /\ TruthyStr(call.pages[i].prompt)
                         /\ call.answers[i].fallback = "throw"
                         /\ reply.pages[i].imageUrl = Null
    /\ \E i \in 1..3 : reply.calls[i] = <<"direct", "fallback">>
                         /\ reply.pages[i].imageUrl = Some(FallbackImageUrl)
    /\ \E i \in 1..3 : reply.calls[i] = <<>>

====
